---- MODULE Spec2Model ----
(***************************************************************************)
(* A model of the router worker: the three relay routes /p, /fetch and     *)
(* /dispatch of index.ts, the header policy of utils.ts and the cookie     *)
(* jar of session_do.ts (one Durable Object per session id).               *)
(*                                                                         *)
(* Text that the code parses (Set-Cookie values, header names, Cookie      *)
(* headers) is a sequence of one-character strings, so that indexOf,       *)
(* split, trim, toLowerCase and join are computed, not assumed.            *)
(***************************************************************************)
EXTENDS Integers, Sequences, FiniteSets, TLC

\* The absent value of an optional field (undefined / null).
NoVal == <<"<none>">>

(* The state.                                                              *)
VARIABLES
  env,      \* the deployment and the world: the SESSION_DO binding, the
            \* list of the response header filter, what the origin servers
            \* may answer
  calls,    \* the inbound calls, by call slot
  st,       \* each call: "new", "run" (handler awaiting), "sent" (answered)
  ent,      \* each call's relay invocations (execUnit), by entry index
  agg,      \* each /dispatch call's aggregateXSetCookies
  out,      \* each call's response to the caller
  jar,      \* the SessionDO storage: session id -> origin -> cookie map
  merged,   \* history: the <<origin, name, value>> merged under each session
  hist,     \* history: the merges each object saved, in the order of the saves
  began,    \* history: the calls that were answered when each call began
  faults    \* history: the failures of the jar, the network and body reads

vars == <<env, calls, st, ent, agg, out, jar, merged, hist, began, faults>>

----------------------------------------------------------------------------
(* Text helpers.                                                           *)

RECURSIVE IndexOf(_, _, _)
\* String.prototype.indexOf(ch) from position i (1-based); 0 when absent.
IndexOf(s, ch, i) ==
  IF i > Len(s) THEN 0
  ELSE IF s[i] = ch THEN i
  ELSE IndexOf(s, ch, i + 1)

RECURSIVE TrimLeft(_)
TrimLeft(s) ==
  IF s # <<>> /\ Head(s) = " " THEN TrimLeft(Tail(s)) ELSE s

RECURSIVE TrimRight(_)
TrimRight(s) ==
  IF s # <<>> /\ s[Len(s)] = " " THEN TrimRight(SubSeq(s, 1, Len(s) - 1)) ELSE s

\* String.prototype.trim
Trim(s) == TrimRight(TrimLeft(s))

\* toLowerCase of one character.
LowerChar(ch) ==
  CASE ch = "A" -> "a" [] ch = "B" -> "b" [] ch = "C" -> "c" [] ch = "D" -> "d"
    [] ch = "E" -> "e" [] ch = "F" -> "f" [] ch = "G" -> "g" [] ch = "H" -> "h"
    [] ch = "I" -> "i" [] ch = "J" -> "j" [] ch = "K" -> "k" [] ch = "L" -> "l"
    [] ch = "M" -> "m" [] ch = "N" -> "n" [] ch = "O" -> "o" [] ch = "P" -> "p"
    [] ch = "Q" -> "q" [] ch = "R" -> "r" [] ch = "S" -> "s" [] ch = "T" -> "t"
    [] ch = "U" -> "u" [] ch = "V" -> "v" [] ch = "W" -> "w" [] ch = "X" -> "x"
    [] ch = "Y" -> "y" [] ch = "Z" -> "z"
    [] OTHER -> ch

\* String.prototype.toLowerCase
ToLowerCase(s) == [i \in DOMAIN s |-> LowerChar(s[i])]

UpperChar(ch) ==
  CASE ch = "a" -> "A" [] ch = "b" -> "B" [] ch = "c" -> "C" [] ch = "d" -> "D"
    [] ch = "e" -> "E" [] ch = "f" -> "F" [] ch = "g" -> "G" [] ch = "h" -> "H"
    [] ch = "i" -> "I" [] ch = "j" -> "J" [] ch = "k" -> "K" [] ch = "l" -> "L"
    [] ch = "m" -> "M" [] ch = "n" -> "N" [] ch = "o" -> "O" [] ch = "p" -> "P"
    [] ch = "q" -> "Q" [] ch = "r" -> "R" [] ch = "s" -> "S" [] ch = "t" -> "T"
    [] ch = "u" -> "U" [] ch = "v" -> "V" [] ch = "w" -> "W" [] ch = "x" -> "X"
    [] ch = "y" -> "Y" [] ch = "z" -> "Z"
    [] OTHER -> ch

\* String.prototype.toUpperCase
ToUpperCase(s) == [i \in DOMAIN s |-> UpperChar(s[i])]

RECURSIVE Join(_, _)
\* Array.prototype.join(sep) of a sequence of texts.
Join(parts, sep) ==
  IF parts = <<>> THEN <<>>
  ELSE IF Len(parts) = 1 THEN parts[1]
  ELSE parts[1] \o sep \o Join(Tail(parts), sep)

RECURSIVE Split(_, _)
\* String.prototype.split(ch) for a one-character separator.
Split(s, ch) ==
  LET k == IndexOf(s, ch, 1) IN
  IF k = 0 THEN <<s>>
  ELSE <<SubSeq(s, 1, k - 1)>> \o Split(SubSeq(s, k + 1, Len(s)), ch)

----------------------------------------------------------------------------
(* session_do.ts: parsing of Set-Cookie values.                            *)

\* parseCookiePair: [name, value], or NoVal for null.
parseCookiePair(str) ==
  LET eq == IndexOf(str, "=", 1) IN
  IF eq = 0 THEN NoVal
  ELSE LET name == Trim(SubSeq(str, 1, eq - 1))
           value == Trim(SubSeq(str, eq + 1, Len(str)))
       IN IF name = <<>> THEN NoVal ELSE <<name, value>>

\* parseSetCookie: the name/value pair of the part before the first ';'
\* (the attributes are parsed by the code and never used), or NoVal.
parseSetCookie(sc) ==
  LET nv == Split(sc, ";")[1] IN
  IF nv = <<>> THEN NoVal ELSE parseCookiePair(nv)

----------------------------------------------------------------------------
(* session_do.ts: the cookie map of one origin, a JS object whose keys     *)
(* keep their insertion order: a sequence of <<name, value>> with          *)
(* distinct names.                                                         *)

JarNames(j) == {j[k][1] : k \in DOMAIN j}

\* An assignment that keeps the value a name already has.
JarPutKeepFirst(j, name, value) ==
  IF name \in JarNames(j) THEN j ELSE Append(j, <<name, value>>)

\* The property name whose assignment on an object stores nothing: the
\* setter of Object.prototype takes it and ignores a string.
ProtoName == <<"_", "_", "p", "r", "o", "t", "o", "_", "_">>

\* An assignment that deletes the name when the value is empty.
JarPutDeletesEmpty(j, name, value) ==
  IF value = <<>>
  THEN LET Keeps(p) == p[1] # name IN SelectSeq(j, Keeps)
  ELSE IF name \in JarNames(j)
  THEN [k \in DOMAIN j |-> IF j[k][1] = name THEN <<name, value>> ELSE j[k]]
  ELSE Append(j, <<name, value>>)

\* jar[name] = value
JarPut(j, name, value) ==
  IF name = ProtoName THEN j
  ELSE IF name \in JarNames(j)
  THEN [k \in DOMAIN j |-> IF j[k][1] = name THEN <<name, value>> ELSE j[k]]
  ELSE Append(j, <<name, value>>)

\* A merge that stops after the first value of the list.
MergeListFirstOnly(j, list) ==
  IF list = <<>> \/ parseSetCookie(Head(list)) = NoVal THEN j
  ELSE JarPut(j, parseSetCookie(Head(list))[1], parseSetCookie(Head(list))[2])

RECURSIVE MergeList(_, _)
\* The loop of /mergeSetCookies over the posted list.
MergeList(j, list) ==
  IF list = <<>> THEN j
  ELSE LET parsed == parseSetCookie(Head(list)) IN
       MergeList(IF parsed = NoVal THEN j ELSE JarPut(j, parsed[1], parsed[2]),
                 Tail(list))

\* A Cookie header of the first stored cookie alone.
CookieHeaderOfFirst(j) ==
  IF j = <<>> THEN <<>> ELSE j[1][1] \o <<"=">> \o j[1][2]

\* The body of /getCookieHeader: `k=v` joined by "; ".
CookieHeaderOf(j) ==
  Join([k \in DOMAIN j |-> j[k][1] \o <<"=">> \o j[k][2]], <<";", " ">>)

----------------------------------------------------------------------------
(* utils.ts: the header policy.  A Headers object is a function from       *)
(* header names, which the platform keeps in lower case, to values.        *)

EmptyHeaders == [k \in {} |-> <<>>]

HHas(h, k) == ToLowerCase(k) \in DOMAIN h

\* Headers.get: the value, or NoVal for null.
HGet(h, k) == IF HHas(h, k) THEN h[ToLowerCase(k)] ELSE NoVal

\* Headers.set
HSet(h, k, v) ==
  [x \in DOMAIN h \cup {ToLowerCase(k)} |-> IF x = ToLowerCase(k) THEN v ELSE h[x]]

\* Headers.append: a repeated name keeps both values, joined by ", ".
HAppend(h, k, v) ==
  IF HHas(h, k) THEN HSet(h, k, HGet(h, k) \o <<",", " ">> \o v) ELSE HSet(h, k, v)

\* A header name the Headers constructor accepts (an HTTP token); of the
\* characters the model uses, only the space is not a token character.
HeaderNameOk(k) == k # <<>> /\ IndexOf(k, " ", 1) = 0

\* Whether new Headers(init) throws a TypeError: init is a sequence of
\* <<name, value>> pairs, the entries of the caller's JSON object.
HeadersInitThrows(init) == \E i \in DOMAIN init : ~HeaderNameOk(init[i][1])

RECURSIVE NewHeadersFrom(_, _)
NewHeadersFrom(h, init) ==
  IF init = <<>> THEN h
  ELSE NewHeadersFrom(HAppend(h, Head(init)[1], Head(init)[2]), Tail(init))

\* new Headers(init), for an init that does not throw.
NewHeaders(init) == NewHeadersFrom(EmptyHeaders, init)

hopByHopHeaders ==
  { <<"c","o","n","n","e","c","t","i","o","n">>,
    <<"p","r","o","x","y","-","c","o","n","n","e","c","t","i","o","n">>,
    <<"k","e","e","p","-","a","l","i","v","e">>,
    <<"t","r","a","n","s","f","e","r","-","e","n","c","o","d","i","n","g">>,
    <<"u","p","g","r","a","d","e">>,
    <<"t","r","a","i","l","e","r">>,
    <<"t","e">> }

disallowedRequestHeaders ==
  { <<"h","o","s","t">>,
    <<"c","o","o","k","i","e">>,
    <<"a","u","t","h","o","r","i","z","a","t","i","o","n">>,
    <<"c","o","n","t","e","n","t","-","l","e","n","g","t","h">> }

\* An allowlist that leaves Content-Range out.
safeResponseHeadersNoRange ==
  << <<"c","o","n","t","e","n","t","-","t","y","p","e">>,
     <<"c","o","n","t","e","n","t","-","l","e","n","g","t","h">>,
     <<"a","c","c","e","p","t","-","r","a","n","g","e","s">>,
     <<"e","t","a","g">>,
     <<"l","a","s","t","-","m","o","d","i","f","i","e","d">> >>

safeResponseHeaders ==
  << <<"c","o","n","t","e","n","t","-","t","y","p","e">>,
     <<"c","o","n","t","e","n","t","-","l","e","n","g","t","h">>,
     <<"a","c","c","e","p","t","-","r","a","n","g","e","s">>,
     <<"c","o","n","t","e","n","t","-","r","a","n","g","e">>,
     <<"e","t","a","g">>,
     <<"l","a","s","t","-","m","o","d","i","f","i","e","d">> >>

\* safeResponseHeaders of the utils.ts that index.ts imports from, which
\* the repository's notes describe: the list "now includes x-set-cookie".
safeResponseHeadersNow ==
  Append(safeResponseHeaders, <<"x","-","s","e","t","-","c","o","o","k","i","e">>)

\* filterRequestHeaders without the disallowedRequestHeaders test.
filterRequestHeadersHopOnly(input) ==
  LET keep == {key \in DOMAIN input : ToLowerCase(key) \notin hopByHopHeaders}
  IN [key \in keep |-> input[key]]

filterRequestHeaders(input) ==
  LET keep == {key \in DOMAIN input :
                 /\ ToLowerCase(key) \notin hopByHopHeaders
                 /\ ToLowerCase(key) \notin disallowedRequestHeaders}
  IN [key \in keep |-> input[key]]

\* filterResponseHeaders copying every header of the upstream response.
filterResponseHeadersAll(input) == input

\* The list is the one of the deployment (env.safe): the utils.ts at hand
\* has six names, the one the notes describe has seven.
filterResponseHeaders(input) ==
  LET keep == {env.safe[i] : i \in DOMAIN env.safe} \cap DOMAIN input
  IN [k \in keep |-> input[k]]

\* An encoding that leaves the comma as it is.
EncodeCharKeepComma(ch) ==
  CASE ch = "=" -> <<"%", "3", "D">>
    [] ch = ";" -> <<"%", "3", "B">>
    [] ch = " " -> <<"%", "2", "0">>
    [] ch = "/" -> <<"%", "2", "F">>
    [] ch = "%" -> <<"%", "2", "5">>
    [] OTHER -> <<ch>>

\* encodeURIComponent of one character: letters, digits and - _ . ! ~ * ' ( )
\* are kept, the rest is percent-encoded.
EncodeChar(ch) ==
  CASE ch = "=" -> <<"%", "3", "D">>
    [] ch = ";" -> <<"%", "3", "B">>
    [] ch = "," -> <<"%", "2", "C">>
    [] ch = " " -> <<"%", "2", "0">>
    [] ch = "/" -> <<"%", "2", "F">>
    [] ch = "%" -> <<"%", "2", "5">>
    [] OTHER -> <<ch>>

RECURSIVE encodeURIComponent(_)
encodeURIComponent(s) ==
  IF s = <<>> THEN <<>> ELSE EncodeChar(Head(s)) \o encodeURIComponent(Tail(s))

\* urlEncodeXSetCookie: NoVal (null) for no values, else the encoded
\* values joined by ','.
urlEncodeXSetCookie(values) ==
  IF values = <<>> THEN NoVal
  ELSE Join([i \in DOMAIN values |-> encodeURIComponent(values[i])], <<",">>)

\* parseSetCookieHeaders: every Set-Cookie value of the response
\* (Headers.getAll of the Workers runtime).
parseSetCookieHeaders(resp) == resp.setCookies

\* resp.headers as Headers.get sees it: the plain headers, and the
\* Set-Cookie values under one name.
RespHeaders(resp) ==
  IF resp.setCookies = <<>> THEN resp.hdrs
  ELSE HSet(resp.hdrs, <<"s","e","t","-","c","o","o","k","i","e">>, Join(resp.setCookies, <<",", " ">>))

DEFAULT_UA == <<"C", "h", "r", "o", "m", "e">>

\* applyBrowserHeaderDefaults: accept and accept-language when absent.
applyBrowserHeaderDefaults(h) ==
  LET h1 == IF HHas(h, <<"a","c","c","e","p","t">>) THEN h ELSE HSet(h, <<"a","c","c","e","p","t">>, <<"*">>)
  IN IF HHas(h1, <<"a","c","c","e","p","t","-","l","a","n","g","u","a","g","e">>) THEN h1
     ELSE HSet(h1, <<"a","c","c","e","p","t","-","l","a","n","g","u","a","g","e">>, <<"e", "n">>)

\* A test that takes every absolute URL, whatever its scheme.
isHttpsAbsoluteAny(s) == s.url

\* isHttpsAbsolute: a target is NoVal-like text that new URL rejects
\* (url = FALSE), or a parsed URL with its scheme and host.
isHttpsAbsolute(s) == s.url /\ s.scheme = "https"

\* getOriginFor: scheme and host of a URL, NoVal (null) when new URL throws.
getOriginFor(s) == IF s.url THEN <<s.scheme, s.host>> ELSE NoVal

\* atob's alphabet after the '-' -> '+' and '_' -> '/' replacement.
B64Chars == {"A", "Q", "g", "w", "-", "_"}

\* base64urlDecode throws (atob's InvalidCharacterError): a character
\* outside the alphabet, or a length that no padding completes.
base64urlDecodeThrows(input) ==
  \/ \E i \in DOMAIN input : input[i] \notin B64Chars
  \/ Len(input) % 4 = 1

----------------------------------------------------------------------------
(* index.ts: its constants and the records of the state.                   *)


MAX_BATCH_REQUESTS == 16

\* The failures the environment may produce in one run.
MaxFaults == 1

\* The call slots, the session ids and the origins of the model.
Calls == DOMAIN calls
Sids == {"A", "B"}
Origins == {<<"https", "a">>, <<"https", "b">>}

NoResp == [status |-> 0, statusText |-> "", hdrs |-> EmptyHeaders,
           setCookies |-> <<>>, bodyJson |-> TRUE,
           redirected |-> FALSE, finalOrigin |-> NoVal]

NoResult == [set |-> FALSE, id |-> NoVal, ok |-> FALSE, status |-> 0,
             statusText |-> "", headers |-> EmptyHeaders, body |-> "absent",
             error |-> ""]

NoOut == [status |-> 0, hdrs |-> EmptyHeaders, body |-> "", count |-> 0,
          results |-> <<>>, pipeline |-> ""]

\* st.cookies of a session that has stored nothing.
EmptyJar == [o \in Origins |-> <<>>]

\* An entry before its execUnit call.  jr, jw count the jar reads and
\* writes begun; seen and readAt record what a read returned and the origin
\* it was keyed by.
NewEntry == [pc |-> "wait", hdrs |-> EmptyHeaders, origin |-> NoVal,
             cookie |-> NoVal, sent |-> FALSE, method |-> NoVal,
             hasBody |-> FALSE, jr |-> 0, jrOk |-> FALSE, seen |-> <<>>,
             readAt |-> NoVal,
             jw |-> 0, jwOk |-> FALSE, loaded |-> EmptyJar, up |-> NoResp,
             xsc |-> NoVal, res |-> NoResult]

\* `req-${index}`, index counted from 0.
Digit(n) ==
  CASE n = 0 -> "0" [] n = 1 -> "1" [] n = 2 -> "2" [] n = 3 -> "3"
    [] n = 4 -> "4" [] n = 5 -> "5" [] n = 6 -> "6" [] n = 7 -> "7"
    [] n = 8 -> "8" [] OTHER -> "9"

\* `${index}` for an index below 100.
Decimal(n) == IF n < 10 THEN <<Digit(n)>> ELSE <<Digit(n \div 10), Digit(n % 10)>>

PositionalId(index) == <<"r", "e", "q", "-">> \o Decimal(index)

\* unit.id || `req-${index}`
UnitId(unit, i) ==
  IF unit.id = NoVal \/ unit.id = <<>> THEN PositionalId(i - 1) ELSE unit.id

\* The method of the relay: c.req.method of /p (the route takes GET and
\* HEAD), method.toUpperCase() with the default 'GET' for an absent
\* method in /fetch, (unit.method || 'GET').toUpperCase() in /dispatch.
UnitMethod(call, unit) ==
  CASE call.ep = "p" ->
         IF unit.method = <<"H", "E", "A", "D">> THEN <<"H", "E", "A", "D">>
         ELSE <<"G", "E", "T">>
    [] call.ep = "fetch" ->
         IF unit.method = NoVal THEN <<"G", "E", "T">> ELSE ToUpperCase(unit.method)
    [] OTHER ->
         IF unit.method = NoVal \/ unit.method = <<>> THEN <<"G", "E", "T">>
         ELSE ToUpperCase(unit.method)

AllowedMethods == {<<"G", "E", "T">>, <<"H", "E", "A", "D">>, <<"P", "O", "S", "T">>}

FailResult(id, status, statusText, error) ==
  [NoResult EXCEPT !.set = TRUE, !.id = id, !.status = status,
                   !.statusText = statusText, !.error = error]

\* Whether the relay uses the jar: sid && origin && env.SESSION_DO.
UsesJar(sid, origin) == sid # "" /\ origin # NoVal /\ env.SESSION_DO

\* appendCors
appendCors(h) ==
  HSet(HSet(h, <<"a", "c", "c", "e", "s", "s", "-", "c", "o", "n", "t", "r", "o", "l", "-", "a", "l", "l", "o", "w", "-", "o", "r", "i", "g", "i", "n">>, <<"*">>),
       <<"a", "c", "c", "e", "s", "s", "-", "c", "o", "n", "t", "r", "o", "l", "-", "e", "x", "p", "o", "s", "e", "-", "h", "e", "a", "d", "e", "r", "s">>, <<"l", "i", "s", "t">>)

TextPlain == HSet(EmptyHeaders, <<"c", "o", "n", "t", "e", "n", "t", "-", "t", "y", "p", "e">>, <<"t", "e", "x", "t">>)
AppJson == HSet(EmptyHeaders, <<"c", "o", "n", "t", "e", "n", "t", "-", "t", "y", "p", "e">>, <<"j", "s", "o", "n">>)

\* A response that carries an error text and no upstream header.
ErrorOut(status, body, ctype) ==
  [NoOut EXCEPT !.status = status, !.body = body, !.hdrs = appendCors(ctype)]

\* What the framework answers when the handler throws.
CrashOut == [NoOut EXCEPT !.status = 500, !.body = "Internal Server Error"]

----------------------------------------------------------------------------
(* index.ts: one relay invocation, cut at its awaits.                      *)

\* A relay that goes on to persist cookies when its body does not decode.
IssueFetchPersistsOnFailure(call, unit, i, e) ==
  LET method == UnitMethod(call, unit)
      hasB64 == call.ep # "p" /\ unit.bodyB64 # NoVal /\ unit.bodyB64 # <<>>
  IN IF hasB64 /\ base64urlDecodeThrows(unit.bodyB64)
     THEN [e EXCEPT !.pc = "write", !.jw = 1]
     ELSE [e EXCEPT !.pc = "fetch", !.sent = TRUE, !.method = method,
                    !.hasBody = hasB64 /\ method \notin {<<"G", "E", "T">>, <<"H", "E", "A", "D">>}]

\* The upstream fetch is issued: lines 251-278 of /dispatch, 157-170 of
\* /fetch, 101-108 of /p.  A malformed bodyB64 ends the entry of a batch
\* with a 400 result and makes /fetch throw.
IssueFetch(call, unit, i, e) ==
  LET method == UnitMethod(call, unit)
      hasB64 == call.ep # "p" /\ unit.bodyB64 # NoVal /\ unit.bodyB64 # <<>>
  IN IF hasB64 /\ base64urlDecodeThrows(unit.bodyB64)
     THEN IF call.ep = "dispatch"
          THEN [e EXCEPT !.pc = "done",
                         !.res = FailResult(UnitId(unit, i), 400, "Bad Request",
                                            "Invalid bodyB64 payload")]
          ELSE [e EXCEPT !.pc = "threw"]
     ELSE [e EXCEPT !.pc = "fetch", !.sent = TRUE, !.method = method,
                    !.hasBody = hasB64 /\ method \notin {<<"G", "E", "T">>, <<"H", "E", "A", "D">>}]

\* enrichHeadersForUpstream setting its User-Agent over the caller's.
EnrichOverwrite(call, unit, i, e, headers) ==
  LET h1 == HSet(headers, <<"u", "s", "e", "r", "-", "a", "g", "e", "n", "t">>, DEFAULT_UA)
      h2 == applyBrowserHeaderDefaults(h1)
      origin == getOriginFor(unit.target)
      e1 == [e EXCEPT !.hdrs = h2, !.origin = origin]
  IN IF UsesJar(call.sid, origin)
     THEN [e1 EXCEPT !.pc = "read", !.jr = 1]
     ELSE IssueFetch(call, unit, i, e1)

\* enrichHeadersForUpstream up to its jar read, after the route's own
\* header filtering.
Enrich(call, unit, i, e, headers) ==
  LET h1 == IF HHas(headers, <<"u", "s", "e", "r", "-", "a", "g", "e", "n", "t">>) THEN headers
            ELSE HSet(headers, <<"u", "s", "e", "r", "-", "a", "g", "e", "n", "t">>, DEFAULT_UA)
      h2 == applyBrowserHeaderDefaults(h1)
      origin == getOriginFor(unit.target)
      e1 == [e EXCEPT !.hdrs = h2, !.origin = origin]
  IN IF UsesJar(call.sid, origin)
     THEN [e1 EXCEPT !.pc = "read", !.jr = 1]
     ELSE IssueFetch(call, unit, i, e1)

\* execUnit (and the bodies of /fetch and /p) from its call to its first
\* await on the jar or on the upstream.
SyncPrefix(call, unit, i) ==
  LET e == NewEntry
      id == UnitId(unit, i)
  IN CASE call.ep = "p" ->
            IF call.u = "missing"
            THEN [e EXCEPT !.pc = "done", !.res = FailResult(id, 400, "", "Missing u")]
            ELSE IF call.u = "bad"
            THEN [e EXCEPT !.pc = "done", !.res = FailResult(id, 400, "", "Bad u")]
            ELSE IF ~isHttpsAbsolute(unit.target)
            THEN [e EXCEPT !.pc = "done",
                           !.res = FailResult(id, 400, "", "Only https targets allowed")]
            ELSE LET raw == NewHeaders(unit.headers)
                     upstreamHeaders == filterRequestHeaders(raw)
                     range == HGet(raw, <<"r", "a", "n", "g", "e">>)
                 IN Enrich(call, unit, i, e,
                           IF range = NoVal \/ range = <<>> THEN upstreamHeaders
                           ELSE HSet(upstreamHeaders, <<"r", "a", "n", "g", "e">>, range))
       [] OTHER ->
            IF ~isHttpsAbsolute(unit.target)
            THEN [e EXCEPT !.pc = "done",
                           !.res = FailResult(id, 400, "Bad Request",
                                              "Only https targets allowed")]
            ELSE IF UnitMethod(call, unit) \notin AllowedMethods
            THEN [e EXCEPT !.pc = "done",
                           !.res = FailResult(id, 405, "Method Not Allowed",
                                              IF call.ep = "fetch"
                                              THEN "Method not allowed"
                                              ELSE "Unsupported method")]
            ELSE IF HeadersInitThrows(unit.headers)
            THEN [e EXCEPT !.pc = "threw"]
            ELSE Enrich(call, unit, i, e,
                        filterRequestHeaders(NewHeaders(unit.headers)))

\* The result of an entry whose upstream answered, lines 324-334.
OkResult(unit, i, e, outHeaders, body) ==
  [NoResult EXCEPT !.set = TRUE, !.id = UnitId(unit, i),
                   !.ok = (e.up.status >= 200 /\ e.up.status <= 299),
                   !.status = e.up.status, !.statusText = e.up.statusText,
                   !.headers = outHeaders, !.body = body]

\* After persistSetCookies: the filtered headers and X-Set-Cookie, then
\* the body.  A single-shot route returns here; a batch entry awaits the
\* body unless the method is HEAD or responseType is "none".
\* A batch entry that reads the body whatever was asked.
WantsBodyAlways(unit, e) == TRUE

\* Lines 301-302: responseType defaults to 'arrayBuffer', and the body is
\* read unless the method is HEAD or responseType is 'none'.
WantsBody(unit, e) ==
  LET responseType == IF unit.responseType = "" THEN "arrayBuffer"
                      ELSE unit.responseType
  IN e.method # <<"H", "E", "A", "D">> /\ responseType # "none"

AfterPersist(call, unit, i, e) ==
  LET encoded == urlEncodeXSetCookie(parseSetCookieHeaders(e.up))
      \* `if (xsc)`: null and the empty string both count as no value.
      xsc == IF encoded = NoVal \/ encoded = <<>> THEN NoVal ELSE encoded
      filtered == filterResponseHeaders(RespHeaders(e.up))
      outHeaders == IF xsc = NoVal THEN filtered
                    ELSE HSet(filtered, <<"X", "-", "S", "e", "t", "-", "C", "o", "o", "k", "i", "e">>, xsc)
      e1 == [e EXCEPT !.xsc = xsc]
  IN IF call.ep # "dispatch"
     THEN [e1 EXCEPT !.pc = "done",
                     !.res = OkResult(unit, i, e, appendCors(outHeaders), "stream")]
     ELSE IF WantsBody(unit, e)
     THEN [e1 EXCEPT !.pc = "body",
                     !.res = [OkResult(unit, i, e, outHeaders, "absent")
                                EXCEPT !.set = FALSE]]
     ELSE [e1 EXCEPT !.pc = "done",
                     !.res = OkResult(unit, i, e, outHeaders, "absent")]

\* A payload that takes every body asked as JSON for parsed JSON.
BodyPayloadNoCatch(unit, up) ==
  LET responseType == IF unit.responseType = "" THEN "arrayBuffer"
                      ELSE unit.responseType
  IN CASE responseType = "arrayBuffer" -> "base64"
       [] responseType = "text" -> "text"
       [] responseType = "json" -> "json"
       [] OTHER -> "absent"

\* The body payload of lines 300-322.
BodyPayload(unit, up) ==
  LET responseType == IF unit.responseType = "" THEN "arrayBuffer"
                      ELSE unit.responseType
  IN CASE responseType = "arrayBuffer" -> "base64"
       [] responseType = "text" -> "text"
       [] responseType = "json" -> IF up.bodyJson THEN "json" ELSE "text+note"
       [] OTHER -> "absent"

----------------------------------------------------------------------------
(* index.ts: the handlers.                                                 *)

\* A /dispatch that never takes the sequential branch.
runSequentiallyNever(call) == FALSE

\* A mode test that takes "Parallel" for 'parallel' as well.
runSequentiallyAnyCase(call) == call.pipeline \notin {"parallel", "Parallel"}

\* body.pipeline !== 'parallel'
runSequentially(call) == call.pipeline # "parallel"

RECURSIVE SeqAdvance(_, _, _)
\* The sequential loop of /dispatch from entry i on: each execUnit runs to
\* its first await; one that returns without awaiting lets the loop go on,
\* one that throws ends the loop.
SeqAdvance(call, ents, i) ==
  IF i > Len(ents) THEN ents
  ELSE LET e == SyncPrefix(call, call.requests[i], i)
           ents2 == [ents EXCEPT ![i] = e]
       IN IF e.pc = "done" THEN SeqAdvance(call, ents2, i + 1) ELSE ents2

\* The entries after entry i has moved to e: in a sequential batch a
\* finished entry resumes the loop.
Resume(call, ents, i, e) ==
  LET ents1 == [ents EXCEPT ![i] = e]
  IN IF call.ep = "dispatch" /\ runSequentially(call) /\ e.pc = "done"
     THEN SeqAdvance(call, ents1, i + 1)
     ELSE ents1

RECURSIVE AppendAll(_, _, _)
\* aggregateXSetCookies.forEach(cookie => responseHeaders.append(name, cookie))
AppendAll(h, name, values) ==
  IF values = <<>> THEN h
  ELSE AppendAll(HAppend(h, name, Head(values)), name, Tail(values))

\* The 200 response of /dispatch, lines 350-364.
DispatchOut(call, ents, aggs) ==
  [NoOut EXCEPT !.status = 200,
                !.hdrs = appendCors(AppendAll(AppJson, <<"X", "-", "S", "e", "t", "-", "C", "o", "o", "k", "i", "e">>, aggs)),
                !.body = "json",
                !.count = Len(ents),
                !.results = [i \in DOMAIN ents |-> ents[i].res],
                !.pipeline = IF runSequentially(call) THEN "sequential"
                             ELSE "parallel"]

\* The response of /p and /fetch: a validation error, or the upstream's
\* status with the filtered headers and the streamed body.
SingleOut(e) ==
  IF e.sent
  THEN [NoOut EXCEPT !.status = e.res.status, !.hdrs = e.res.headers,
                     !.body = "stream"]
  ELSE ErrorOut(e.res.status, e.res.error, TextPlain)

\* The answer, if any, once the entries stand at ents: a throw of any
\* execUnit (or of the single relay) is a throw of the handler; a batch
\* answers when every entry has its result.
Answer(call, ents, aggs) ==
  IF \E i \in DOMAIN ents : ents[i].pc = "threw" THEN CrashOut
  ELSE IF \A i \in DOMAIN ents : ents[i].pc = "done"
  THEN IF call.ep = "dispatch" THEN DispatchOut(call, ents, aggs)
       ELSE SingleOut(ents[1])
  ELSE NoOut

\* The common end of every step of call c: the entries and the aggregate
\* are updated and the call answers unless it has answered before.
Settle(c, ents, aggs) ==
  LET a == Answer(calls[c], ents, aggs)
  IN /\ ent' = [ent EXCEPT ![c] = ents]
     /\ agg' = [agg EXCEPT ![c] = aggs]
     /\ IF st[c] = "sent" \/ a = NoOut
        THEN /\ st' = [st EXCEPT ![c] = IF st[c] = "sent" THEN "sent" ELSE "run"]
             /\ out' = out
        ELSE /\ st' = [st EXCEPT ![c] = "sent"]
             /\ out' = [out EXCEPT ![c] = a]

\* Lines 207-219: the list is neither empty nor longer than the limit.
BatchSizeOk(requests) ==
  Len(requests) # 0 /\ ~(Len(requests) > MAX_BATCH_REQUESTS)

\* The handler of call c runs up to its first await.  A body that does not
\* parse is answered 400; the body null parses, and reading body.sid (the
\* destructuring, in /fetch) throws.
Begin(c) ==
  LET call == calls[c]
      requests == IF call.isArray THEN call.requests ELSE <<>>
      wait == [i \in DOMAIN requests |-> NewEntry]
  IN /\ st[c] = "new"
     /\ began' = [began EXCEPT ![c] = {d \in Calls : st[d] = "sent"}]
     /\ UNCHANGED <<env, calls, jar, merged, hist, faults>>
     /\ IF call.ep # "p" /\ ~call.json
        THEN /\ st' = [st EXCEPT ![c] = "sent"]
             /\ out' = [out EXCEPT ![c] =
                  IF call.ep = "dispatch"
                  THEN ErrorOut(400, "Invalid JSON body", AppJson)
                  ELSE ErrorOut(400, "Invalid JSON", TextPlain)]
             /\ UNCHANGED <<ent, agg>>
        ELSE IF call.ep # "p" /\ call.nullBody
        THEN /\ st' = [st EXCEPT ![c] = "sent"]
             /\ out' = [out EXCEPT ![c] = CrashOut]
             /\ UNCHANGED <<ent, agg>>
        ELSE IF call.ep = "dispatch" /\ ~BatchSizeOk(requests)
        THEN /\ st' = [st EXCEPT ![c] = "sent"]
             /\ out' = [out EXCEPT ![c] =
                  ErrorOut(400, IF Len(requests) = 0 THEN "requests array required"
                                ELSE "Too many requests", AppJson)]
             /\ UNCHANGED <<ent, agg>>
        ELSE IF call.ep = "dispatch" /\ ~runSequentially(call)
        THEN Settle(c, [i \in DOMAIN requests |->
                          SyncPrefix(call, requests[i], i)], <<>>)
        ELSE Settle(c, SeqAdvance(call, wait, 1), <<>>)

\* idFromName(sid) with one object for every session.
DOIdShared(sid) == "A"

\* env.SESSION_DO.idFromName(sid): one Durable Object per session id.
DOId(sid) == sid

\* The outcomes of an awaited operation that may fail: TRUE (it succeeds)
\* and, while the run has failures left, FALSE.
Outcomes == IF faults < MaxFaults THEN {TRUE, FALSE} ELSE {TRUE}

Counted(ok) == faults' = IF ok THEN faults ELSE faults + 1

\* An object that takes a new request at any time.
InputGateNone(id) == TRUE

\* The input gate of a Durable Object: while the object awaits a storage
\* operation it is delivered no other request, so none arrives between
\* the load and the save of a merge.
InputGateOpen(id) ==
  \A c \in Calls : \A i \in DOMAIN ent[c] :
    ~(ent[c][i].pc = "save" /\ DOId(calls[c].sid) = id)

\* The entry once getCookieHeaderFromDO has returned: the text of the
\* object's answer, or null when the answer is empty, is no 2xx, or the
\* call threw (the catch of lines 96-98); `if (cookie)` sets the header.
Enriched(call, e, ok) ==
  LET text == IF ok THEN CookieHeaderOf(jar[DOId(call.sid)][e.origin])
              ELSE <<>>
      cookie == IF text = <<>> THEN NoVal ELSE text
  IN [e EXCEPT !.cookie = cookie, !.jrOk = ok,
               !.seen = jar[call.sid][e.origin], !.readAt = e.origin,
               !.hdrs = IF cookie = NoVal THEN e.hdrs
                        ELSE HSet(e.hdrs, <<"c", "o", "o", "k", "i", "e">>, cookie)]

\* A jar read whose failure is not caught and ends the relay.
AfterReadUncaught(call, i, e, ok) ==
  IF ok THEN IssueFetch(call, call.requests[i], i, Enriched(call, e, ok))
  ELSE [e EXCEPT !.pc = "threw"]

\* enrichHeadersForUpstream returns and the relay goes on to its fetch,
\* whatever the jar read gave.
AfterRead(call, i, e, ok) ==
  IssueFetch(call, call.requests[i], i, Enriched(call, e, ok))

\* getCookieHeaderFromDO answers, and the relay goes on to its fetch.
JarRead(c, i) ==
  LET call == calls[c]
      e == ent[c][i]
  IN /\ i \in DOMAIN ent[c]
     /\ e.pc = "read"
     /\ InputGateOpen(DOId(call.sid))
     /\ \E ok \in Outcomes :
          /\ Counted(ok)
          /\ Settle(c, Resume(call, ent[c], i, AfterRead(call, i, e, ok)), agg[c])
     /\ UNCHANGED <<env, calls, jar, merged, hist, began>>

\* The aggregate after an entry passed AfterPersist.
Pushed(call, aggs, e) ==
  IF call.ep = "dispatch" /\ e.xsc # NoVal THEN Append(aggs, e.xsc) ELSE aggs

\* The upstream answers or the fetch fails.
Upstream(c, i) ==
  LET call == calls[c]
      e == ent[c][i]
      unit == call.requests[i]
  IN /\ i \in DOMAIN ent[c]
     /\ e.pc = "fetch"
     /\ \E o \in env.upstream :
          /\ o.neterr => faults < MaxFaults
          /\ Counted(~o.neterr)
          /\ IF o.neterr
             THEN Settle(c, Resume(call, ent[c], i,
                    IF call.ep = "dispatch"
                    THEN [e EXCEPT !.pc = "done",
                                   !.res = FailResult(UnitId(unit, i), 0,
                                                      "FETCH_ERROR", "fetch failed")]
                    ELSE [e EXCEPT !.pc = "threw"]), agg[c])
             ELSE LET e1 == [e EXCEPT !.up = o.resp]
                  IN IF UsesJar(call.sid, e.origin)
                        /\ parseSetCookieHeaders(o.resp) # <<>>
                     THEN Settle(c, Resume(call, ent[c], i,
                                           [e1 EXCEPT !.pc = "write", !.jw = 1]),
                                 agg[c])
                     ELSE LET e2 == AfterPersist(call, unit, i, e1)
                          IN Settle(c, Resume(call, ent[c], i, e2),
                                    Pushed(call, agg[c], e2))
     /\ UNCHANGED <<env, calls, jar, merged, hist, began>>

\* The <<origin, name, value>> a merge of list under origin stores.
MergedOf(origin, list) ==
  {<<origin, parseSetCookie(list[k])[1], parseSetCookie(list[k])[2]>> :
     k \in {k \in DOMAIN list : parseSetCookie(list[k]) # NoVal}}

\* mergeSetCookiesToDO reaches the object, which loads its state
\* (SessionDO.load), or the call fails and the failure is ignored.
MergeLoad(c, i) ==
  LET call == calls[c]
      e == ent[c][i]
      unit == call.requests[i]
      id == DOId(call.sid)
  IN /\ i \in DOMAIN ent[c]
     /\ e.pc = "write"
     /\ InputGateOpen(id)
     /\ \E ok \in Outcomes :
          /\ Counted(ok)
          /\ IF ok
             THEN Settle(c, [ent[c] EXCEPT ![i] =
                               [e EXCEPT !.pc = "save", !.loaded = jar[id]]], agg[c])
             ELSE LET e2 == AfterPersist(call, unit, i, [e EXCEPT !.jwOk = FALSE])
                  IN Settle(c, Resume(call, ent[c], i, e2), Pushed(call, agg[c], e2))
     /\ UNCHANGED <<env, calls, jar, merged, hist, began>>

\* A write keyed by the origin of the final response (resp.url) when
\* redirects were followed.
PersistOriginFinal(e) ==
  IF e.up.redirected THEN e.up.finalOrigin ELSE e.origin

\* The origin persistSetCookies is called with: the one
\* enrichHeadersForUpstream returned for the target.
PersistOrigin(e) == e.origin

\* A merge that applies the list to the map of every origin.
mergeSetCookiesEverywhere(cookies, originParam, list) ==
  [o \in DOMAIN cookies |-> MergeList(cookies[o], list)]

\* /mergeSetCookies on the loaded st.cookies: the list is applied to the
\* map of originParam, the other maps are saved as they were loaded.
mergeSetCookies(cookies, originParam, list) ==
  [cookies EXCEPT ![originParam] = MergeList(@, list)]

\* The object applies the list to the state it loaded and saves it
\* (SessionDO.save); mergeSetCookiesToDO returns and the relay goes on.
JarWrite(c, i) ==
  LET call == calls[c]
      e == ent[c][i]
      unit == call.requests[i]
      list == parseSetCookieHeaders(e.up)
      id == DOId(call.sid)
  IN /\ i \in DOMAIN ent[c]
     /\ e.pc = "save"
     /\ jar' = [jar EXCEPT ![id] = mergeSetCookies(e.loaded, PersistOrigin(e), list)]
     /\ merged' = [merged EXCEPT ![call.sid] = @ \cup MergedOf(PersistOrigin(e), list)]
     /\ hist' = [hist EXCEPT ![id] =
                   Append(@, [by |-> <<c, i>>, origin |-> PersistOrigin(e), list |-> list])]
     /\ LET e2 == AfterPersist(call, unit, i,
                               [e EXCEPT !.jwOk = TRUE, !.loaded = EmptyJar])
        IN Settle(c, Resume(call, ent[c], i, e2), Pushed(call, agg[c], e2))
     /\ UNCHANGED <<env, calls, began, faults>>

\* resp.arrayBuffer() settles: the body is materialized, or reading it
\* fails and execUnit throws.
BodyRead(c, i) ==
  LET call == calls[c]
      e == ent[c][i]
      unit == call.requests[i]
  IN /\ i \in DOMAIN ent[c]
     /\ e.pc = "body"
     /\ \E ok \in Outcomes :
          /\ Counted(ok)
          /\ Settle(c, Resume(call, ent[c], i,
                IF ok
                THEN [e EXCEPT !.pc = "done",
                               !.res = [e.res EXCEPT !.set = TRUE,
                                                     !.body = BodyPayload(unit, e.up)]]
                ELSE [e EXCEPT !.pc = "threw"]), agg[c])
     /\ UNCHANGED <<env, calls, jar, merged, hist, began>>

Next ==
  \E c \in Calls :
    \/ Begin(c)
    \/ \E i \in DOMAIN ent[c] : JarRead(c, i)
    \/ \E i \in DOMAIN ent[c] : Upstream(c, i)
    \/ \E i \in DOMAIN ent[c] : MergeLoad(c, i)
    \/ \E i \in DOMAIN ent[c] : JarWrite(c, i)
    \/ \E i \in DOMAIN ent[c] : BodyRead(c, i)

----------------------------------------------------------------------------
(* The inputs: targets, batch entries, calls, and upstream answers.        *)

TargetA == [url |-> TRUE, scheme |-> "https", host |-> "a"]
TargetB == [url |-> TRUE, scheme |-> "https", host |-> "b"]
TargetHttp == [url |-> TRUE, scheme |-> "http", host |-> "a"]
TargetNone == [url |-> FALSE, scheme |-> "", host |-> ""]

Unit(id, target, method, headers, bodyB64, responseType) ==
  [id |-> id, target |-> target, method |-> method, headers |-> headers,
   bodyB64 |-> bodyB64, responseType |-> responseType]

\* Entries that pass validation.
GetA == Unit(NoVal, TargetA, NoVal, <<>>, NoVal, "none")
PostB == Unit(<<"x">>, TargetB, <<"p", "o", "s", "t">>, <<>>, <<"Q", "Q">>, "")
\* Entries that fail: a non-https target, a disallowed method, a malformed
\* bodyB64, and a header name that new Headers rejects.
BadTarget == Unit(NoVal, TargetHttp, NoVal, <<>>, NoVal, "")
BadMethod == Unit(<<"m">>, TargetA, <<"D", "E", "L", "E", "T", "E">>, <<>>, NoVal, "")
BadBody == Unit(NoVal, TargetA, <<"P", "O", "S", "T">>, <<>>, <<"Q", "!">>, "none")
BadHeader == Unit(NoVal, TargetA, NoVal, << <<<<"b", "a", "d", " ", "n", "a", "m", "e">>, <<"1">> >> >>, NoVal, "none")

UnitKinds == {GetA, PostB, BadTarget, BadMethod, BadBody, BadHeader}

\* The longest batch whose entries are chosen freely.
MaxBatch == 2

RECURSIVE SeqsUpTo(_, _)
\* The non-empty sequences over S of length at most n.
SeqsUpTo(S, n) ==
  IF n = 0 THEN {}
  ELSE LET shorter == SeqsUpTo(S, n - 1)
       IN {<<x>> : x \in S} \cup shorter
            \cup {Append(s, x) : s \in {t \in shorter : Len(t) = n - 1}, x \in S}

Call(ep, sid, pipeline, requests) ==
  [ep |-> ep, sid |-> sid, json |-> TRUE, nullBody |-> FALSE,
   pipeline |-> pipeline, isArray |-> TRUE, requests |-> requests, u |-> "ok"]

Resp(status, statusText, hdrs, setCookies) ==
  [status |-> status, statusText |-> statusText, hdrs |-> hdrs,
   setCookies |-> setCookies, bodyJson |-> TRUE,
   redirected |-> FALSE, finalOrigin |-> NoVal]

Answered(resp) == [neterr |-> FALSE, resp |-> resp]
NetworkError == [neterr |-> TRUE, resp |-> NoResp]

SetS1 == <<"s", "=", "1">>
SetS2 == <<"s", "=", "2", ";", " ", "P", "a", "t", "h", "=", "/">>
SetT1 == <<"t", "=", "1">>
SetBad == <<"b", "a", "d">>
\* A Set-Cookie value a browser takes as a deletion: empty value, expired.
SetGone == <<"s", "=", ";", " ", "M", "a", "x", "-", "A", "g", "e", "=", "0">>

\* What the origin servers answer in the batch scenarios.
BatchUpstream ==
  { NetworkError,
    Answered(Resp(404, "Not Found", EmptyHeaders, <<>>)),
    Answered(Resp(200, "OK", EmptyHeaders, <<SetS1>>)),
    Answered(Resp(200, "OK", EmptyHeaders, <<SetS2, SetT1>>)) }

\* A list of n entries, all alike.
Filled(n, unit) == [i \in 1..n |-> unit]

\* The /dispatch calls of the batch scenarios: every short batch in both
\* modes with and without a session id, the lists at the size limits
\* (not an array, empty, the limit, one more), and the bodies that hold no
\* list at all (null, and text that is no JSON), and a parallel batch of two
\* entries to one origin with a third whose headers are rejected.
BatchCalls ==
  {Call("dispatch", sid, pipeline, requests) :
     sid \in {"", "A"}, pipeline \in {"", "parallel"},
     requests \in SeqsUpTo(UnitKinds, MaxBatch)}
  \cup {[Call("dispatch", "A", pipeline, <<>>) EXCEPT !.isArray = FALSE] :
          pipeline \in {"", "parallel"}}
  \cup {Call("dispatch", "A", pipeline, requests) :
          pipeline \in {"", "parallel"},
          requests \in {<<>>, Filled(MAX_BATCH_REQUESTS, BadTarget),
                        Filled(MAX_BATCH_REQUESTS + 1, GetA)}}
  \cup { Call("dispatch", "A", "parallel", <<GetA, GetA, BadHeader>>),
         [Call("dispatch", "A", "", <<>>) EXCEPT !.isArray = FALSE, !.nullBody = TRUE],
         [Call("dispatch", "A", "", <<>>) EXCEPT !.isArray = FALSE, !.json = FALSE] }

InitState ==
  /\ faults = 0
  /\ st = [c \in Calls |-> "new"]
  /\ ent = [c \in Calls |-> <<>>]
  /\ agg = [c \in Calls |-> <<>>]
  /\ out = [c \in Calls |-> NoOut]
  /\ jar = [s \in Sids |-> [o \in Origins |-> <<>>]]
  /\ merged = [s \in Sids \cup {""} |-> {}]
  /\ hist = [s \in Sids |-> <<>>]
  /\ began = [c \in Calls |-> {}]

\* One /dispatch call.
InitBatch ==
  /\ env \in {[SESSION_DO |-> bound, upstream |-> BatchUpstream,
                 safe |-> safeResponseHeaders] : bound \in BOOLEAN}
  /\ calls \in {<<b>> : b \in BatchCalls}
  /\ InitState

SpecBatch == InitBatch /\ [][Next]_vars

\* One /dispatch call whose awaited operations all settle: every pending
\* upstream call, jar operation and body read completes or fails, and the
\* event loop resumes the handler.
\* The accepted /dispatch calls of a session: every short non-empty batch
\* in both modes.
LiveCalls ==
  {Call("dispatch", "A", pipeline, requests) :
     pipeline \in {"", "parallel"},
     requests \in SeqsUpTo(UnitKinds, MaxBatch) \ {<<>>}}

InitLive ==
  /\ env = [SESSION_DO |-> TRUE, upstream |-> BatchUpstream,
            safe |-> safeResponseHeaders]
  /\ calls \in {<<a>> : a \in LiveCalls}
  /\ InitState

SpecBatchLive == InitLive /\ [][Next]_vars /\ WF_vars(Next)


----------------------------------------------------------------------------
(* Two concurrent calls on any endpoint, with caller and upstream headers  *)
(* of every class.                                                         *)

\* Caller headers: every hop-by-hop and sensitive name in some letter
\* case, a Cookie of the caller's own, a custom header and a Range.
CallerHeaders ==
  << <<<<"C", "o", "o", "k", "i", "e">>, <<"e", "v", "i", "l", "=", "1">>>>,
     <<<<"H", "O", "S", "T">>, <<"h">>>>,
     <<<<"T", "e">>, <<"x">>>>,
     <<<<"A", "u", "t", "h", "o", "r", "i", "z", "a", "t", "i", "o", "n">>, <<"k">>>>,
     <<<<"C", "o", "n", "t", "e", "n", "t", "-", "L", "e", "n", "g", "t", "h">>, <<"9">>>>,
     <<<<"C", "o", "n", "n", "e", "c", "t", "i", "o", "n">>, <<"c">>>>,
     <<<<"P", "r", "o", "x", "y", "-", "C", "o", "n", "n", "e", "c", "t", "i", "o", "n">>, <<"c">>>>,
     <<<<"K", "e", "e", "p", "-", "A", "l", "i", "v", "e">>, <<"k">>>>,
     <<<<"T", "r", "a", "n", "s", "f", "e", "r", "-", "E", "n", "c", "o", "d", "i", "n", "g">>, <<"t">>>>,
     <<<<"U", "P", "G", "R", "A", "D", "E">>, <<"u">>>>,
     <<<<"T", "r", "a", "i", "l", "e", "r">>, <<"t">>>>,
     <<<<"X", "-", "C", "u", "s", "t", "o", "m">>, <<"v">>>>,
     <<<<"R", "a", "n", "g", "e">>, <<"r">>>> >>

\* Upstream response headers: the relayable ones and others.
UpstreamHeaders ==
  NewHeaders(<< <<<<"C", "o", "n", "t", "e", "n", "t", "-", "T", "y", "p", "e">>, <<"t", "e", "x", "t">>>>,
             <<<<"S", "e", "r", "v", "e", "r">>, <<"x">>>>,
             <<<<"E", "T", "a", "g">>, <<"e">>>>,
             <<<<"X", "-", "P", "o", "w", "e", "r", "e", "d", "-", "B", "y">>, <<"y">>>>,
             <<<<"C", "o", "n", "t", "e", "n", "t", "-", "L", "e", "n", "g", "t", "h">>, <<"9">>>>,
             <<<<"A", "c", "c", "e", "p", "t", "-", "R", "a", "n", "g", "e", "s">>, <<"b">>>>,
             <<<<"C", "o", "n", "t", "e", "n", "t", "-", "R", "a", "n", "g", "e">>, <<"r">>>>,
             <<<<"L", "a", "s", "t", "-", "M", "o", "d", "i", "f", "i", "e", "d">>, <<"d">>>>,
             <<<<"X", "-", "S", "e", "t", "-", "C", "o", "o", "k", "i", "e">>, <<"f", "o", "r", "g", "e", "d">>>>,
             <<<<"L", "o", "c", "a", "t", "i", "o", "n">>, <<"l">>>> >>)

RichGetA == Unit(<<"g">>, TargetA, <<"g", "e", "t">>, CallerHeaders, NoVal, "text")
RichPostA == Unit(NoVal, TargetA, <<"P", "O", "S", "T">>, CallerHeaders, <<"Q", "Q">>, "")
PlainGetA == Unit(NoVal, TargetA, NoVal, <<>>, NoVal, "json")

\* What the origin servers answer in the two-call scenarios.
RichUpstream ==
  { NetworkError,
    Answered(Resp(200, "OK", UpstreamHeaders, <<SetS1>>)),
    Answered(Resp(200, "OK", UpstreamHeaders, <<>>)),
    Answered(Resp(404, "Not Found", EmptyHeaders, <<SetS1, SetT1, SetBad, SetS2>>)) }

\* The first call runs under session A, the second under A, under B, or
\* under no session.
FirstCalls ==
  { Call("p", "A", "", <<RichGetA>>),
    Call("fetch", "A", "", <<RichPostA>>),
    Call("dispatch", "A", "", <<RichGetA, PlainGetA>>) }

SecondCalls ==
  UNION {{ Call("p", sid, "", <<RichGetA>>),
           Call("fetch", sid, "", <<PlainGetA>>),
           Call("dispatch", sid, "parallel", <<PlainGetA>>) } : sid \in Sids}
    \cup { Call("fetch", "", "", <<RichGetA>>) }

Init ==
  /\ env = [SESSION_DO |-> TRUE, upstream |-> RichUpstream,
            safe |-> safeResponseHeaders]
  /\ calls \in {<<a, b>> : a \in FirstCalls, b \in SecondCalls}
  /\ InitState

Spec == Init /\ [][Next]_vars

----------------------------------------------------------------------------
(* One call on any route: the inputs that fail validation, request bodies  *)
(* with every method, and an upstream that sends an empty Set-Cookie.      *)

GetBody == Unit(NoVal, TargetA, <<"g", "e", "t">>, <<>>, <<"Q", "Q">>, "none")
HeadBody == Unit(NoVal, TargetA, <<"H", "E", "A", "D">>, <<>>, <<"Q", "Q">>, "")
GetBadBody == Unit(NoVal, TargetA, <<"G", "E", "T">>, <<>>, <<"Q", "!">>, "none")
NoTarget == Unit(NoVal, TargetNone, NoVal, <<>>, NoVal, "")
\* A caller that names its own User-Agent and Accept.
OwnAgent ==
  Unit(NoVal, TargetA, NoVal,
       << <<<<"U", "s", "e", "r", "-", "A", "g", "e", "n", "t">>, <<"u">>>>,
          <<<<"A", "C", "C", "E", "P", "T">>, <<"a">>>> >>, NoVal, "none")

OneCalls ==
  UNION {
    {[Call("p", sid, "", <<RichGetA>>) EXCEPT !.u = u] : u \in {"missing", "bad", "ok"}}
    \cup {Call("p", sid, "", <<x>>) : x \in {BadTarget, NoTarget, PlainGetA, OwnAgent}}
    \cup {Call("fetch", sid, "", <<x>>) :
            x \in {BadTarget, NoTarget, BadMethod, RichPostA, BadBody,
                   GetBadBody, GetBody, HeadBody, OwnAgent}}
    \cup {Call("dispatch", sid, "", requests) :
            requests \in {<<GetBadBody>>, <<GetBody, RichPostA>>, <<HeadBody>>,
                          <<RichGetA>>, <<BadBody, PlainGetA>>, <<OwnAgent>>}}
    \cup {Call("dispatch", sid, pipeline, <<GetBody, HeadBody>>) :
            pipeline \in {"sequential", "parallel", "Parallel"}}
    : sid \in {"", "A"}}

\* The answer of another origin, reached over redirects (redirect:
\* 'follow'): resp.redirected is true and resp.url is at that origin.
Redirected(resp, origin) ==
  [resp EXCEPT !.redirected = TRUE, !.finalOrigin = origin]

\* An answer whose body is no JSON text.
NotJson(resp) == [resp EXCEPT !.bodyJson = FALSE]

OneUpstream ==
  RichUpstream \cup {Answered(Resp(200, "OK", UpstreamHeaders, << <<>> >>)),
                     Answered(NotJson(Resp(200, "OK", UpstreamHeaders, <<>>))),
                     Answered(Resp(206, "Partial Content", UpstreamHeaders, <<>>)),
                     Answered(Redirected(Resp(200, "OK", EmptyHeaders, <<SetT1>>),
                                         <<"https", "b">>)),
                     Answered(NotJson(Resp(404, "Not Found", EmptyHeaders, <<SetS1>>))),
                     Answered(Resp(200, "OK", EmptyHeaders, <<SetGone>>))}

InitOne ==
  /\ env \in {[SESSION_DO |-> TRUE, upstream |-> OneUpstream, safe |-> list] :
                list \in {safeResponseHeaders, safeResponseHeadersNow}}
  /\ calls \in {<<a>> : a \in OneCalls}
  /\ InitState

SpecOne == InitOne /\ [][Next]_vars

----------------------------------------------------------------------------
(* The consolidation of Set-Cookie values: one relay whose upstream        *)
(* answers with any short list of values, among them values with commas,   *)
(* semicolons, spaces, a percent sign, the name __proto__, and the empty   *)
(* value.                                                                  *)

CookieValues ==
  { <<"a", "=", "1">>,
    <<"a", "=", "b", ",", "c">>,
    <<"x", ";", " ", "P", "a", "t", "h", "=", "/">>,
    <<"p", "=", "%", "2", "C">>,
    <<"e", "=", " ", "f">>,
    ProtoName \o <<"=", "1">>,
    <<>> }

\* The longest list of Set-Cookie values of one response.
MaxList == 2

CodecUpstream ==
  {Answered(Resp(200, "OK", EmptyHeaders, list)) :
     list \in SeqsUpTo(CookieValues, MaxList)}
  \cup {NetworkError}

InitCodec ==
  /\ env = [SESSION_DO |-> TRUE, upstream |-> CodecUpstream,
            safe |-> safeResponseHeaders]
  /\ calls \in {<<Call("p", "A", "", <<PlainGetA>>)>>,
                 <<Call("dispatch", "A", "", <<PlainGetA>>)>>}
  /\ InitState

SpecCodec == InitCodec /\ [][Next]_vars

----------------------------------------------------------------------------
(* Notions the properties share.                                           *)

IsDispatch(c) == calls[c].ep = "dispatch"

\* The number of entries /dispatch sees: none when requests is no array.
ListSize(c) == IF calls[c].isArray THEN Len(calls[c].requests) ELSE 0

\* A /dispatch call whose envelope passes the JSON and size tests.
Accepted(c) ==
  IsDispatch(c) /\ calls[c].json /\ ListSize(c) >= 1 /\ ListSize(c) <= 16

UpstreamCalls(c) == Cardinality({i \in DOMAIN ent[c] : ent[c][i].sent})
JarOps(c) ==
  Cardinality({i \in DOMAIN ent[c] : ent[c][i].jr = 1})
    + Cardinality({i \in DOMAIN ent[c] : ent[c][i].jw = 1})

InFlight(c) ==
  {i \in DOMAIN ent[c] : ent[c][i].pc \in {"read", "fetch", "write", "save", "body"}}

TargetOrigin(c, i) == getOriginFor(calls[c].requests[i].target)

\* The name/value pairs a list of Set-Cookie values leaves behind: of each
\* name, the value of its last valid occurrence.
SetPairs(list) ==
  {parseSetCookie(list[k]) :
     k \in {k \in DOMAIN list :
              /\ parseSetCookie(list[k]) # NoVal
              /\ \A m \in DOMAIN list :
                   (m > k /\ parseSetCookie(list[m]) # NoVal)
                     => parseSetCookie(list[m])[1] # parseSetCookie(list[k])[1]}}

\* The name/value pairs of a Cookie header (NoVal: no header).
CookiesIn(header) ==
  IF header = NoVal THEN {}
  ELSE LET parts == Split(header, ";")
       IN {parseCookiePair(Trim(parts[k])) : k \in DOMAIN parts}

\* The Cookie header entry i of call c sent upstream, NoVal when none.
SentCookie(c, i) == HGet(ent[c][i].hdrs, <<"c", "o", "o", "k", "i", "e">>)

----------------------------------------------------------------------------
(* C2.  In a batch whose pipeline is not "parallel", an entry has begun    *)
(* (jar read, upstream call) only when every entry before it has fully     *)
(* completed, and at most one entry is in flight at any time.              *)
C2_SequentialNoOverlap ==
  \A c \in Calls :
    (IsDispatch(c) /\ calls[c].pipeline # "parallel") =>
      /\ \A i, j \in DOMAIN ent[c] :
           (i < j /\ ent[c][j].pc # "wait") => ent[c][i].pc = "done"
      /\ Cardinality(InFlight(c)) <= 1

C2_Witness ==
  \E c \in Calls :
    /\ IsDispatch(c) /\ calls[c].pipeline # "parallel"
    /\ Len(ent[c]) >= 2
    /\ ent[c][1].pc = "done" /\ ent[c][1].sent /\ ent[c][1].jwOk
    /\ ent[c][2].pc = "fetch" /\ ent[c][2].jrOk

----------------------------------------------------------------------------
Writers(c, i, j, origin, n) ==
  {k \in i..(j - 1) :
     /\ ent[c][k].jwOk /\ TargetOrigin(c, k) = origin
     /\ \E p \in SetPairs(ent[c][k].up.setCookies) : p[1] = n}

Latest(S) == CHOOSE k \in S : \A m \in S : m <= k

----------------------------------------------------------------------------
(* C4, as stated: a /dispatch whose body parses and whose list is missing,  *)
(* no array, empty or longer than 16 is answered 400 with no relay         *)
(* activity at all (no entry is run: no upstream call, no jar read or      *)
(* write); a list of 1 to 16 entries is never answered with a size error   *)
(* and all its entries are taken up.                                       *)
C4_Original ==
  \A c \in Calls :
    (IsDispatch(c) /\ calls[c].json) =>
      /\ (ListSize(c) = 0 \/ ListSize(c) > 16) =>
           /\ st[c] \in {"new", "sent"}
           /\ st[c] = "sent" => out[c].status = 400
           /\ ent[c] = <<>> /\ UpstreamCalls(c) = 0 /\ JarOps(c) = 0
           /\ \A s \in Sids : merged[s] = {}
      /\ (ListSize(c) >= 1 /\ ListSize(c) <= 16) =>
           /\ st[c] # "new" => Len(ent[c]) = ListSize(c)
           /\ st[c] = "sent" =>
                out[c].body \notin {"requests array required", "Too many requests"}

----------------------------------------------------------------------------
(* C5, as stated: when an entry of a batch fails (non-https target,        *)
(* disallowed method, malformed bodyB64, network error), the answer lists  *)
(* that entry's failed result and a result of its own for every other      *)
(* entry.                                                                  *)
FailedEntry(c, i) ==
  ent[c][i].pc = "done" /\ ent[c][i].res.set /\ ent[c][i].res.error # ""

C5_Original ==
  \A c \in Calls :
    (Accepted(c) /\ st[c] = "sent") =>
      \A i \in DOMAIN ent[c] :
        FailedEntry(c, i) =>
          /\ out[c].status = 200
          /\ Len(out[c].results) = Len(ent[c])
          /\ out[c].results[i] = ent[c][i].res
          /\ \A j \in DOMAIN ent[c] : out[c].results[j].set

----------------------------------------------------------------------------
(* C6, as stated: every /dispatch with a parsable envelope and a list of   *)
(* 1 to 16 entries is answered 200 with the JSON payload.                  *)
C6_Original ==
  \A c \in Calls :
    (Accepted(c) /\ st[c] = "sent") =>
      out[c].status = 200 /\ out[c].body = "json"

----------------------------------------------------------------------------
(* C7, as stated: the answer of every accepted /dispatch has count equal   *)
(* to the number of requests and results[i] carries the id of requests[i], *)
(* or req-<i> (counted from 0) when it has none.                           *)
ExpectedId(c, i) ==
  IF calls[c].requests[i].id = NoVal THEN <<"r", "e", "q", "-">> \o Decimal(i - 1)
  ELSE calls[c].requests[i].id

C7_Original ==
  \A c \in Calls :
    (Accepted(c) /\ st[c] = "sent") =>
      /\ out[c].count = ListSize(c)
      /\ Len(out[c].results) = ListSize(c)
      /\ \A i \in DOMAIN out[c].results :
           out[c].results[i].set /\ out[c].results[i].id = ExpectedId(c, i)

----------------------------------------------------------------------------
(* C8, as stated: the answer of /dispatch carries an X-Set-Cookie header   *)
(* made of the X-Set-Cookie values of exactly the entries that produced    *)
(* one, and none when no entry did.                                        *)
Segments(value) ==
  LET parts == Split(value, ",") IN {Trim(parts[k]) : k \in DOMAIN parts}

Producers(c) == {i \in DOMAIN ent[c] : ent[c][i].xsc # NoVal}

C8_Original ==
  \A c \in Calls :
    (Accepted(c) /\ st[c] = "sent") =>
      LET combined == HGet(out[c].hdrs, <<"x", "-", "s", "e", "t", "-", "c", "o", "o", "k", "i", "e">>)
      IN IF Producers(c) = {} THEN combined = NoVal
         ELSE /\ combined # NoVal
              /\ Segments(combined) =
                   UNION {Segments(ent[c][i].xsc) : i \in Producers(c)}


----------------------------------------------------------------------------
(* C1.  Whatever a jar read under a session returns, and whatever Cookie   *)
(* header a request made under a session carries, was merged under that    *)
(* same session for that origin: a cookie merged under session A alone is  *)
(* never seen under session B.                                             *)
MergedUnder(sid, origin) ==
  {<<m[2], m[3]>> : m \in {m \in merged[sid] : m[1] = origin}}

C1_SessionIsolation ==
  \A c \in Calls : \A i \in DOMAIN ent[c] :
    /\ CookiesIn(ent[c][i].cookie) \subseteq MergedUnder(calls[c].sid, ent[c][i].origin)
    /\ ent[c][i].sent =>
         CookiesIn(SentCookie(c, i)) \subseteq MergedUnder(calls[c].sid, ent[c][i].origin)

C1_Witness ==
  \E c, d \in Calls :
    /\ calls[c].sid = "A" /\ calls[d].sid = "B"
    /\ \E i \in DOMAIN ent[c] : ent[c][i].jwOk
    /\ MergedUnder("A", getOriginFor(TargetA)) # {}
    /\ MergedUnder("B", getOriginFor(TargetA)) = {}
    /\ \E i \in DOMAIN ent[d] :
         /\ ent[d][i].origin = getOriginFor(TargetA)
         /\ ent[d][i].jrOk /\ ent[d][i].seen = <<>> /\ ent[d][i].sent
         /\ SentCookie(d, i) = NoVal

----------------------------------------------------------------------------
(* C9.  The headers of every answer (of /p, of /fetch, of /dispatch and of *)
(* each of its results) hold no Set-Cookie; those of a relayed answer or   *)
(* result are among content-type, content-length, accept-ranges,           *)
(* content-range, etag, last-modified and x-set-cookie (and, on a          *)
(* response, the relay's own CORS headers), each but x-set-cookie with the *)
(* upstream's value.                                                       *)
Allowlist ==
  { <<"c", "o", "n", "t", "e", "n", "t", "-", "t", "y", "p", "e">>,
    <<"c", "o", "n", "t", "e", "n", "t", "-", "l", "e", "n", "g", "t", "h">>,
    <<"a", "c", "c", "e", "p", "t", "-", "r", "a", "n", "g", "e", "s">>,
    <<"c", "o", "n", "t", "e", "n", "t", "-", "r", "a", "n", "g", "e">>,
    <<"e", "t", "a", "g">>,
    <<"l", "a", "s", "t", "-", "m", "o", "d", "i", "f", "i", "e", "d">>,
    <<"x", "-", "s", "e", "t", "-", "c", "o", "o", "k", "i", "e">> }

CorsNames ==
  { <<"a", "c", "c", "e", "s", "s", "-", "c", "o", "n", "t", "r", "o", "l", "-", "a", "l", "l", "o", "w", "-", "o", "r", "i", "g", "i", "n">>,
    <<"a", "c", "c", "e", "s", "s", "-", "c", "o", "n", "t", "r", "o", "l", "-", "e", "x", "p", "o", "s", "e", "-", "h", "e", "a", "d", "e", "r", "s">> }

FromUpstream(h, up) ==
  LET sent == RespHeaders(up)
  IN \A k \in DOMAIN h \ (CorsNames \cup {<<"x", "-", "s", "e", "t", "-", "c", "o", "o", "k", "i", "e">>}) :
       k \in DOMAIN sent /\ h[k] = sent[k]

C9_ResponseHeaderAllowlist ==
  \A c \in Calls :
    /\ <<"s", "e", "t", "-", "c", "o", "o", "k", "i", "e">> \notin DOMAIN out[c].hdrs
    /\ DOMAIN out[c].hdrs \subseteq Allowlist \cup CorsNames
    /\ (st[c] = "sent" /\ ~IsDispatch(c) /\ out[c].status # 500 /\ ent[c][1].sent) =>
         FromUpstream(out[c].hdrs, ent[c][1].up)
    /\ \A i \in DOMAIN ent[c] :
         /\ DOMAIN ent[c][i].res.headers \subseteq Allowlist \cup CorsNames
         /\ IsDispatch(c) => DOMAIN ent[c][i].res.headers \subseteq Allowlist
         /\ FromUpstream(ent[c][i].res.headers, ent[c][i].up)
    /\ \A i \in DOMAIN out[c].results :
         DOMAIN out[c].results[i].headers \subseteq Allowlist

\* An answer that relays an upstream response which carried Set-Cookie and
\* headers outside the list.
C9_Witness ==
  \E c \in Calls :
    /\ st[c] = "sent" /\ ~IsDispatch(c) /\ ent[c][1].sent
    /\ ent[c][1].up.setCookies # <<>>
    /\ <<"s", "e", "r", "v", "e", "r">> \in DOMAIN RespHeaders(ent[c][1].up)
    /\ <<"s", "e", "t", "-", "c", "o", "o", "k", "i", "e">> \in DOMAIN RespHeaders(ent[c][1].up)
    /\ <<"e", "t", "a", "g">> \in DOMAIN out[c].hdrs
    /\ <<"x", "-", "s", "e", "t", "-", "c", "o", "o", "k", "i", "e">> \in DOMAIN out[c].hdrs

----------------------------------------------------------------------------
Denied ==
  { <<"c", "o", "n", "n", "e", "c", "t", "i", "o", "n">>,
    <<"p", "r", "o", "x", "y", "-", "c", "o", "n", "n", "e", "c", "t", "i", "o", "n">>,
    <<"k", "e", "e", "p", "-", "a", "l", "i", "v", "e">>,
    <<"t", "r", "a", "n", "s", "f", "e", "r", "-", "e", "n", "c", "o", "d", "i", "n", "g">>,
    <<"u", "p", "g", "r", "a", "d", "e">>,
    <<"t", "r", "a", "i", "l", "e", "r">>,
    <<"t", "e">>,
    <<"h", "o", "s", "t">>,
    <<"c", "o", "o", "k", "i", "e">>,
    <<"a", "u", "t", "h", "o", "r", "i", "z", "a", "t", "i", "o", "n">>,
    <<"c", "o", "n", "t", "e", "n", "t", "-", "l", "e", "n", "g", "t", "h">> }

\* The request was sent with none of the caller's denied headers: no
\* denied name but Cookie, and no cookie of the caller's.
DeniedDropped(c, i) ==
  /\ DOMAIN ent[c][i].hdrs \cap Denied \subseteq {<<"c", "o", "o", "k", "i", "e">>}
  /\ LET given == calls[c].requests[i].headers
         own == UNION {CookiesIn(given[k][2]) :
                         k \in {k \in DOMAIN given :
                                  ToLowerCase(given[k][1]) = <<"c", "o", "o", "k", "i", "e">>}}
     IN CookiesIn(SentCookie(c, i)) \cap own = {}

\* The cookies the session's jar held for the origin when the relay read it.
Held(c, i) == {<<ent[c][i].seen[k][1], ent[c][i].seen[k][2]>> : k \in DOMAIN ent[c][i].seen}

(* C10, as stated: a sent request carries none of the caller's denied      *)
(* headers, and it carries a Cookie header exactly when the session's jar  *)
(* holds a cookie for the target's origin, made of the jar's cookies.      *)
C10_Original ==
  \A c \in Calls : \A i \in DOMAIN ent[c] :
    ent[c][i].sent =>
      /\ DeniedDropped(c, i)
      /\ SentCookie(c, i) # NoVal <=> Held(c, i) # {}
      /\ CookiesIn(SentCookie(c, i)) = Held(c, i)

(* C10, amended: a sent request carries none of the caller's denied        *)
(* headers, and it carries a Cookie header exactly when the relay's jar    *)
(* read succeeded and the jar held a cookie for the target's origin at     *)
(* that read; the header is then made of the cookies the jar held.         *)
C10_RequestHeaderPolicy ==
  \A c \in Calls : \A i \in DOMAIN ent[c] :
    ent[c][i].sent =>
      /\ DeniedDropped(c, i)
      /\ SentCookie(c, i) # NoVal <=> (ent[c][i].jrOk /\ Held(c, i) # {})
      /\ SentCookie(c, i) # NoVal => CookiesIn(SentCookie(c, i)) = Held(c, i)
      /\ SentCookie(c, i) = ent[c][i].cookie

\* A request whose caller sent denied headers in other letter cases and a
\* Cookie of its own goes out with the jar's cookie alone.
C10_Witness ==
  \E c \in Calls : \E i \in DOMAIN ent[c] :
    /\ ent[c][i].sent /\ ent[c][i].jrOk /\ Held(c, i) # {}
    /\ calls[c].requests[i].headers = CallerHeaders
    /\ SentCookie(c, i) = ent[c][i].cookie /\ SentCookie(c, i) # NoVal
    /\ <<"x", "-", "c", "u", "s", "t", "o", "m">> \in DOMAIN ent[c][i].hdrs


----------------------------------------------------------------------------
RECURSIVE Replay(_, _)
\* The state an object reaches from j by applying the merges of log one
\* after the other.
Replay(j, log) ==
  IF log = <<>> THEN j
  ELSE Replay([j EXCEPT ![Head(log).origin] = MergeList(@, Head(log).list)],
              Tail(log))

(* C11.  For every session the stored jar is the result of applying the    *)
(* merges the object saved one after the other in the order of their       *)
(* saves: no merge is lost (every name merged under the session is in the  *)
(* jar), and every successful read returned the jar as it stood after some *)
(* number of whole merges.                                                 *)
C11_JarLinearized ==
  \A s \in Sids :
    /\ jar[s] = Replay(EmptyJar, hist[s])
    /\ \A m \in merged[s] : m[2] \in JarNames(jar[s][m[1]])
    /\ \A c \in Calls : \A i \in DOMAIN ent[c] :
         (calls[c].sid = s /\ ent[c][i].jrOk) =>
           \E k \in 0..Len(hist[s]) :
             ent[c][i].seen = Replay(EmptyJar, SubSeq(hist[s], 1, k))[ent[c][i].origin]

\* Two calls on one session are in flight together: the merge of the
\* second call was saved between two merges of the first, under different
\* cookie names, and all of them are in the jar.
C11_Witness ==
  \E s \in Sids :
    /\ Len(hist[s]) = 3
    /\ hist[s][1].by[1] = hist[s][3].by[1]
    /\ hist[s][2].by[1] # hist[s][1].by[1]
    /\ hist[s][1].list # hist[s][2].list
    /\ {<<"s">>, <<"t">>} \subseteq JarNames(jar[s][getOriginFor(TargetA)])
    /\ jar[s] = Replay(EmptyJar, hist[s])


----------------------------------------------------------------------------
\* The value a list of Set-Cookie values leaves for name n, NoVal if none.
ValueSet(list, n) ==
  LET at == {k \in DOMAIN list :
               parseSetCookie(list[k]) # NoVal /\ parseSetCookie(list[k])[1] = n}
  IN IF at = {} THEN NoVal
     ELSE parseSetCookie(list[CHOOSE k \in at : \A m \in at : m <= k])[2]

\* The value stored for name n in a jar of one origin, NoVal if none.
Stored(j, n) ==
  IF \E k \in DOMAIN j : j[k][1] = n
  THEN j[CHOOSE k \in DOMAIN j : j[k][1] = n][2]
  ELSE NoVal

\* The saves of log that wrote name n under the origin.
SavesOf(log, origin, n) ==
  {k \in DOMAIN log : log[k].origin = origin /\ ValueSet(log[k].list, n) # NoVal}

(* C12, as stated: when two entries of a parallel batch under a session    *)
(* target one origin and their responses set one cookie name to different  *)
(* values, then once the batch has answered and both entries are through,  *)
(* both have a successful result in the answer, and the value stored for   *)
(* the name is the one of the write that was saved last.                   *)
C12_Original ==
  \A c \in Calls :
    (/\ IsDispatch(c) /\ calls[c].pipeline = "parallel"
     /\ calls[c].sid # "" /\ env.SESSION_DO /\ st[c] = "sent") =>
      \A i, j \in DOMAIN ent[c] : \A n \in {<<"s">>, <<"t">>} :
        (/\ i < j /\ TargetOrigin(c, i) = TargetOrigin(c, j)
         /\ ent[c][i].pc = "done" /\ ent[c][j].pc = "done"
         /\ ent[c][i].sent /\ ent[c][j].sent
         /\ ValueSet(ent[c][i].up.setCookies, n) # NoVal
         /\ ValueSet(ent[c][j].up.setCookies, n) # NoVal
         /\ ValueSet(ent[c][i].up.setCookies, n) # ValueSet(ent[c][j].up.setCookies, n))
          => /\ Len(out[c].results) = Len(ent[c])
             /\ out[c].results[i].ok /\ out[c].results[j].ok
             /\ LET saves == SavesOf(hist[calls[c].sid], TargetOrigin(c, i), n)
                IN saves # {} =>
                     Stored(jar[calls[c].sid][TargetOrigin(c, i)], n)
                       = ValueSet(hist[calls[c].sid][Latest(saves)].list, n)

----------------------------------------------------------------------------
(* C13.  In every reachable state the jar of a session and origin holds    *)
(* each cookie name at most once, the names it holds are the names some    *)
(* saved merge set, and the value of a name is the one of the last saved   *)
(* merge that set it, of the last valid occurrence of the name in that     *)
(* merge's list.                                                           *)
C13_JarLastWriteWins ==
  \A s \in Sids : \A o \in Origins :
    LET j == jar[s][o] IN
    /\ \A k, m \in DOMAIN j : j[k][1] = j[m][1] => k = m
    /\ \A n \in JarNames(j) \cup {<<"s">>, <<"t">>, <<"b", "a", "d">>} :
         LET saves == SavesOf(hist[s], o, n)
         IN IF saves = {} THEN Stored(j, n) = NoVal
            ELSE Stored(j, n) = ValueSet(hist[s][Latest(saves)].list, n)

\* A jar that took a list with one name twice and kept the last value,
\* after an earlier merge had stored another value for the name.
C13_Witness ==
  \E s \in Sids :
    LET o == getOriginFor(TargetA) IN
    /\ Len(hist[s]) >= 2
    /\ hist[s][1].list = <<SetS1>>
    /\ hist[s][Len(hist[s])].list = <<SetS1, SetT1, SetBad, SetS2>>
    /\ Stored(jar[s][o], <<"s">>) = <<"2">>
    /\ Stored(jar[s][o], <<"t">>) = <<"1">>
    /\ Len(jar[s][o]) = 2

----------------------------------------------------------------------------
\* The answer of call c relays the response of its entry i, which set
\* cookies: the answer (of a batch, the entry's result in it) carries the
\* entry's X-Set-Cookie.
Relayed(c, i) ==
  /\ st[c] = "sent" /\ ent[c][i].pc = "done" /\ ent[c][i].sent
  /\ ent[c][i].xsc # NoVal
  /\ IF IsDispatch(c)
     THEN /\ out[c].status = 200 /\ i \in DOMAIN out[c].results
          /\ HGet(out[c].results[i].headers, <<"x", "-", "s", "e", "t", "-", "c", "o", "o", "k", "i", "e">>) = ent[c][i].xsc
     ELSE HGet(out[c].hdrs, <<"x", "-", "s", "e", "t", "-", "c", "o", "o", "k", "i", "e">>) = ent[c][i].xsc

\* The names of the cookies the request of entry k of call d carried.
SentNames(d, k) == {q[1] : q \in CookiesIn(SentCookie(d, k))}

----------------------------------------------------------------------------
\* The target of the single relay of call c is an absolute https URL.
HttpsTarget(c) ==
  calls[c].requests[1].target.url /\ calls[c].requests[1].target.scheme = "https"

\* The method /fetch was asked for, in upper case; GET when none is given.
AskedMethod(c) ==
  IF calls[c].requests[1].method = NoVal THEN <<"G", "E", "T">>
  ELSE ToUpperCase(calls[c].requests[1].method)

\* The status the validation of a single-shot call must answer, 0 for a
\* call that passes.
Rejection(c) ==
  IF calls[c].ep = "p"
  THEN IF calls[c].u \in {"missing", "bad"} \/ ~HttpsTarget(c) THEN 400 ELSE 0
  ELSE IF ~HttpsTarget(c) THEN 400
  ELSE IF AskedMethod(c) \notin {<<"G", "E", "T">>, <<"H", "E", "A", "D">>, <<"P", "O", "S", "T">>}
  THEN 405 ELSE 0

----------------------------------------------------------------------------
\* Entry i of call c carries a bodyB64 that is no url-safe base64.
MalformedBody(c, i) ==
  LET b == calls[c].requests[i].bodyB64
  IN b # NoVal /\ b # <<>> /\ base64urlDecodeThrows(b)

\* Entry i of call c passes the target, method and header tests.
PassesChecks(c, i) ==
  LET unit == calls[c].requests[i]
  IN /\ unit.target.url /\ unit.target.scheme = "https"
     /\ UnitMethod(calls[c], unit) \in AllowedMethods
     /\ ~HeadersInitThrows(unit.headers)

(* C16, as stated: a POST /fetch whose bodyB64 is malformed is answered    *)
(* with a 4xx status and makes no upstream call; an entry of a /dispatch   *)
(* with a malformed bodyB64 ends with the result status 400 and no         *)
(* upstream call, and the batch is answered 200 with a result for every    *)
(* entry.                                                                  *)
C16_Original ==
  \A c \in Calls :
    /\ (/\ calls[c].ep = "fetch" /\ calls[c].json /\ ~calls[c].nullBody
        /\ PassesChecks(c, 1) /\ MalformedBody(c, 1)
        /\ AskedMethod(c) = <<"P", "O", "S", "T">>) =>
         /\ UpstreamCalls(c) = 0
         /\ st[c] = "sent" => (out[c].status >= 400 /\ out[c].status <= 499)
    /\ (IsDispatch(c) /\ Accepted(c)) =>
         \A i \in DOMAIN ent[c] :
           (PassesChecks(c, i) /\ MalformedBody(c, i)) =>
             /\ ~ent[c][i].sent
             /\ ent[c][i].pc \in {"wait", "read", "done"}
             /\ ent[c][i].pc = "done" =>
                  ent[c][i].res.set /\ ent[c][i].res.status = 400 /\ ~ent[c][i].res.ok
             /\ st[c] = "sent" =>
                  /\ out[c].status = 200 /\ Len(out[c].results) = Len(ent[c])
                  /\ out[c].results[i].status = 400

----------------------------------------------------------------------------
\* The upstream call of entry i of call c was made and failed: the entry
\* is past its fetch and holds no response.
NetworkFailed(c, i) ==
  ent[c][i].sent /\ ent[c][i].pc # "fetch" /\ ent[c][i].up = NoResp

(* C17, as stated: an entry of an accepted /dispatch whose upstream call   *)
(* failed is finished at once (the call is not made again) with the result *)
(* ok:false, status 0, statusText FETCH_ERROR and an error text, and the   *)
(* batch, once answered, is answered 200 with that result at the entry's   *)
(* place.                                                                  *)
C17_Original ==
  \A c \in Calls :
    Accepted(c) =>
      \A i \in DOMAIN ent[c] :
        NetworkFailed(c, i) =>
          /\ ent[c][i].pc = "done"
          /\ ent[c][i].res.set /\ ~ent[c][i].res.ok
          /\ ent[c][i].res.status = 0
          /\ ent[c][i].res.statusText = "FETCH_ERROR"
          /\ ent[c][i].res.error # ""
          /\ st[c] = "sent" =>
               /\ out[c].status = 200
               /\ Len(out[c].results) = Len(ent[c])
               /\ out[c].results[i] = ent[c][i].res

----------------------------------------------------------------------------
\* Entry i of call c was given a bodyB64.
BodySupplied(c, i) ==
  calls[c].requests[i].bodyB64 # NoVal /\ calls[c].requests[i].bodyB64 # <<>>

\* Entry i of call c is past the point where the body is handled.
PastBody(c, i) == ent[c][i].pc \notin {"wait", "read"}

(* C18, as stated: a /fetch call or /dispatch entry that passes validation *)
(* and was given a bodyB64 is relayed without a body when its method is    *)
(* GET or HEAD, and the bodyB64 is then ignored, whatever it holds: the    *)
(* upstream call is made; with the method POST the decoded body is sent.   *)
C18_Original ==
  \A c \in Calls :
    (calls[c].ep \in {"fetch", "dispatch"} /\ calls[c].json /\ ~calls[c].nullBody) =>
      \A i \in DOMAIN ent[c] :
        (PassesChecks(c, i) /\ BodySupplied(c, i) /\ PastBody(c, i)) =>
          IF UnitMethod(calls[c], calls[c].requests[i]) = <<"P", "O", "S", "T">>
          THEN ent[c][i].sent => ent[c][i].hasBody
          ELSE ent[c][i].sent /\ ~ent[c][i].hasBody

----------------------------------------------------------------------------
\* Entry i of call c has relayed an upstream response: its result (of a
\* single-shot call, the answer) carries the response's status and headers.
RelayedResponse(c, i) ==
  /\ ent[c][i].pc = "done" /\ ent[c][i].sent /\ ent[c][i].res.set
  /\ ~NetworkFailed(c, i)

(* C19, as stated: the headers returned for a relayed upstream response    *)
(* (the headers of the answer of /p and /fetch, the headers of the entry's *)
(* result in /dispatch) hold X-Set-Cookie if and only if the upstream      *)
(* response carried at least one Set-Cookie value.                         *)
C19_Original ==
  \A c \in Calls : \A i \in DOMAIN ent[c] :
    RelayedResponse(c, i) =>
      /\ HHas(ent[c][i].res.headers, <<"X", "-", "S", "e", "t", "-", "C", "o", "o", "k", "i", "e">>)
           <=> ent[c][i].up.setCookies # <<>>
      /\ (~IsDispatch(c) /\ st[c] = "sent") =>
           (HHas(out[c].hdrs, <<"X", "-", "S", "e", "t", "-", "C", "o", "o", "k", "i", "e">>)
              <=> ent[c][i].up.setCookies # <<>>)

----------------------------------------------------------------------------
\* The character of a percent escape %ab.
Unescaped(a, b) ==
  CASE a = "3" /\ b = "D" -> "="
    [] a = "3" /\ b = "B" -> ";"
    [] a = "2" /\ b = "C" -> ","
    [] a = "2" /\ b = "0" -> " "
    [] a = "2" /\ b = "F" -> "/"
    [] a = "2" /\ b = "5" -> "%"
    [] OTHER -> "?"

RECURSIVE PercentDecode(_)
\* The caller's percent-decoding of one segment.
PercentDecode(s) ==
  IF s = <<>> THEN <<>>
  ELSE IF Head(s) = "%" /\ Len(s) >= 3
  THEN <<Unescaped(s[2], s[3])>> \o PercentDecode(SubSeq(s, 4, Len(s)))
  ELSE <<Head(s)>> \o PercentDecode(Tail(s))

\* The caller's reading of an X-Set-Cookie value: split on commas, then
\* percent-decode each segment.
SplitDecode(text) ==
  LET parts == Split(text, ",") IN [k \in DOMAIN parts |-> PercentDecode(parts[k])]

----------------------------------------------------------------------------
(* C21.  A jar read never fails a relay: when the read finds nothing (a    *)
(* session never written, an origin with no stored cookie) or the read     *)
(* itself fails, the relay goes on to its upstream request without a       *)
(* Cookie header; an entry that read the jar and was not sent stopped on   *)
(* its own malformed bodyB64, never on the read.                           *)
ReadDone(c, i) == ent[c][i].jr = 1 /\ ent[c][i].pc # "read"

C21_JarReadNeverFails ==
  \A c \in Calls : \A i \in DOMAIN ent[c] :
    ReadDone(c, i) =>
      /\ (~ent[c][i].jrOk \/ ent[c][i].seen = <<>>)
           => ent[c][i].cookie = NoVal /\ SentCookie(c, i) = NoVal
      /\ ent[c][i].sent \/ MalformedBody(c, i)
      /\ (ent[c][i].pc = "threw" /\ ~ent[c][i].sent) => MalformedBody(c, i)

\* A relay whose jar read failed, sent upstream without a Cookie header and
\* answered 200.
C21_Witness ==
  \E c \in Calls : \E i \in DOMAIN ent[c] :
    /\ ReadDone(c, i) /\ ~ent[c][i].jrOk
    /\ ent[c][i].sent /\ SentCookie(c, i) = NoVal
    /\ ent[c][i].pc = "done" /\ ent[c][i].res.status = 200
    /\ st[c] = "sent" /\ out[c].status = 200

----------------------------------------------------------------------------
(* C22.  A result of /dispatch carries a body only when one was asked for: *)
(* a result with a body belongs to an entry whose upstream answered, whose *)
(* method is not HEAD and whose responseType is not "none"; an absent      *)
(* responseType gives the base64 body of 'arrayBuffer'; the result of a    *)
(* HEAD entry or of a "none" entry has no body.  The same holds of the     *)
(* results in the response.                                                *)
AskedType(c, i) ==
  IF calls[c].requests[i].responseType = "" THEN "arrayBuffer"
  ELSE calls[c].requests[i].responseType

BodyAsked(c, i) ==
  /\ ent[c][i].up # NoResp
  /\ ToUpperCase(IF calls[c].requests[i].method \in {NoVal, <<>>}
                 THEN <<"G", "E", "T">> ELSE calls[c].requests[i].method)
       # <<"H", "E", "A", "D">>
  /\ AskedType(c, i) # "none"

BodyRule(c, i, r) ==
  /\ r.body # "absent" => BodyAsked(c, i)
  /\ (r.body # "absent" /\ AskedType(c, i) = "arrayBuffer") => r.body = "base64"

C22_BodyOnlyWhenRequested ==
  \A c \in Calls : IsDispatch(c) =>
    /\ \A i \in DOMAIN ent[c] : ent[c][i].res.set => BodyRule(c, i, ent[c][i].res)
    /\ out[c].status = 200 =>
         \A i \in DOMAIN out[c].results : BodyRule(c, i, out[c].results[i])

\* A batch answered with the result of a "none" entry, which has no body
\* although its upstream answered, and the result of an entry with no
\* responseType, which has the base64 body.
C22_Witness ==
  \E c \in Calls :
    /\ IsDispatch(c) /\ st[c] = "sent" /\ out[c].status = 200
    /\ Len(out[c].results) = 2
    /\ calls[c].requests[1].responseType = "none"
    /\ ent[c][1].up # NoResp /\ out[c].results[1].body = "absent"
    /\ calls[c].requests[2].responseType = ""
    /\ out[c].results[2].body = "base64"

----------------------------------------------------------------------------
(* C23.  An entry of /dispatch that asks for "json" and whose upstream     *)
(* body is no JSON does not fail: its result has the upstream's status and *)
(* ok flag, no error, and the raw text with the note that parsing failed;  *)
(* the response carries that result.                                       *)
UnparsableJson(c, i) ==
  /\ IsDispatch(c)
  /\ AskedType(c, i) = "json"
  /\ ent[c][i].up # NoResp /\ ~ent[c][i].up.bodyJson
  /\ ent[c][i].method # <<"H", "E", "A", "D">>

RawTextResult(c, i, r) ==
  /\ r.body = "text+note"
  /\ r.error = ""
  /\ r.status = ent[c][i].up.status
  /\ r.statusText = ent[c][i].up.statusText
  /\ r.ok = (ent[c][i].up.status \in 200..299)

C23_JsonFallbackToText ==
  \A c \in Calls : \A i \in DOMAIN ent[c] :
    (UnparsableJson(c, i) /\ ent[c][i].res.set) =>
      /\ ent[c][i].pc = "done"
      /\ RawTextResult(c, i, ent[c][i].res)
      /\ out[c].status = 200 => RawTextResult(c, i, out[c].results[i])

\* A batch answered 200 whose "json" entry got a 404 with a body that is no
\* JSON: the result is not ok, has status 404 and the raw text.
C23_Witness ==
  \E c \in Calls : \E i \in DOMAIN ent[c] :
    /\ UnparsableJson(c, i)
    /\ st[c] = "sent" /\ out[c].status = 200
    /\ out[c].results[i].body = "text+note"
    /\ out[c].results[i].status = 404 /\ ~out[c].results[i].ok

----------------------------------------------------------------------------
(* C24.  Range passthrough on /p: the Range header of the incoming request *)
(* goes upstream with the value it came with, and a request without one    *)
(* sends no Range upstream; the response has the upstream's status (206    *)
(* included) and the upstream's Content-Range, value unchanged, or none    *)
(* when the upstream sent none.                                            *)
RangeName == <<"r", "a", "n", "g", "e">>
ContentRangeName == <<"c", "o", "n", "t", "e", "n", "t", "-", "r", "a", "n", "g", "e">>

\* c.req.header('range') of the incoming request, NoVal when absent.
IncomingRange(c) == HGet(NewHeaders(calls[c].requests[1].headers), RangeName)

C24_RangePassthrough ==
  \A c \in Calls :
    (calls[c].ep = "p" /\ ent[c] # <<>> /\ ent[c][1].sent) =>
      /\ HGet(ent[c][1].hdrs, RangeName) = IncomingRange(c)
      /\ (st[c] = "sent" /\ ent[c][1].up # NoResp) =>
           /\ out[c].status = ent[c][1].up.status
           /\ HGet(out[c].hdrs, ContentRangeName)
                = HGet(RespHeaders(ent[c][1].up), ContentRangeName)

\* A /p request with a Range, sent upstream with it and answered 206 with
\* the upstream's Content-Range.
C24_Witness ==
  \E c \in Calls :
    /\ calls[c].ep = "p" /\ IncomingRange(c) = <<"r">>
    /\ ent[c] # <<>> /\ HGet(ent[c][1].hdrs, RangeName) = <<"r">>
    /\ st[c] = "sent" /\ out[c].status = 206
    /\ HGet(out[c].hdrs, ContentRangeName) = <<"r">>

----------------------------------------------------------------------------
(* C25.  Every request sent upstream, from any route, has a User-Agent, an *)
(* Accept and an Accept-Language: each is the caller's value when the      *)
(* caller supplied one and the fixed default otherwise.                    *)
UserAgentName == <<"u", "s", "e", "r", "-", "a", "g", "e", "n", "t">>
AcceptName == <<"a", "c", "c", "e", "p", "t">>
AcceptLanguageName == <<"a", "c", "c", "e", "p", "t", "-", "l", "a", "n", "g", "u", "a", "g", "e">>

\* The header as the caller supplied it, NoVal when it did not.
Supplied(c, i, name) == HGet(NewHeaders(calls[c].requests[i].headers), name)

CallerOrDefault(c, i, name, default) ==
  HGet(ent[c][i].hdrs, name)
    = IF Supplied(c, i, name) # NoVal THEN Supplied(c, i, name) ELSE default

C25_BrowserDefaults ==
  \A c \in Calls : \A i \in DOMAIN ent[c] :
    ent[c][i].sent =>
      /\ CallerOrDefault(c, i, UserAgentName, DEFAULT_UA)
      /\ CallerOrDefault(c, i, AcceptName, <<"*">>)
      /\ CallerOrDefault(c, i, AcceptLanguageName, <<"e", "n">>)

\* A request sent with the caller's User-Agent and Accept and the default
\* Accept-Language.
C25_Witness ==
  \E c \in Calls : \E i \in DOMAIN ent[c] :
    /\ ent[c][i].sent
    /\ Supplied(c, i, UserAgentName) = <<"u">>
    /\ HGet(ent[c][i].hdrs, UserAgentName) = <<"u">>
    /\ HGet(ent[c][i].hdrs, AcceptName) = <<"a">>
    /\ Supplied(c, i, AcceptLanguageName) = NoVal
    /\ HGet(ent[c][i].hdrs, AcceptLanguageName) = <<"e", "n">>

----------------------------------------------------------------------------
\* Entry i of call c passes validation: /p has a u that decodes, the target
\* is an absolute https URL, the method is GET, HEAD or POST, and the body
\* of a POST decodes.
Validated(c, i) ==
  LET unit == calls[c].requests[i]
  IN /\ calls[c].ep = "p" => calls[c].u = "ok"
     /\ unit.target.url /\ unit.target.scheme = "https"
     /\ UnitMethod(calls[c], unit) \in AllowedMethods
     /\ ~(UnitMethod(calls[c], unit) = <<"P", "O", "S", "T">> /\ MalformedBody(c, i))

\* The relay of entry i of call c is over: it has its result or has thrown.
RelayOver(c, i) == ent[c][i].pc \in {"done", "threw"}

(* C26, as stated: a relay that passes validation makes, by the time it is *)
(* over, exactly one upstream call, exactly one jar read, begun before the *)
(* call, and at most one jar write, begun after the response.              *)
C26_Original ==
  \A c \in Calls : \A i \in DOMAIN ent[c] :
    Validated(c, i) =>
      /\ ent[c][i].jw <= 1 /\ ent[c][i].jr <= 1
      /\ ent[c][i].sent => ent[c][i].jr = 1 /\ ent[c][i].pc # "read"
      /\ ent[c][i].jw = 1 => ent[c][i].sent /\ ent[c][i].up # NoResp
      /\ RelayOver(c, i) => ent[c][i].sent /\ ent[c][i].jr = 1

----------------------------------------------------------------------------
\* The merge of entry i of call c has been saved.
MergeSaved(c, i) ==
  ent[c][i].jw = 1 /\ ent[c][i].jwOk /\ ent[c][i].pc \notin {"write", "save"}

(* C27, as stated: a merge takes of each value the name=value before the   *)
(* first ';'; a value with no '=' there, or with an empty name, is skipped *)
(* and the values after it are still applied; once the merge of a relay is *)
(* saved, the jar of its session and origin holds, for every name with a   *)
(* valid value in the list, the value of the last of them.                 *)
C27_Original ==
  \A c \in Calls : \A i \in DOMAIN ent[c] :
    MergeSaved(c, i) =>
      \A pair \in SetPairs(parseSetCookieHeaders(ent[c][i].up)) :
        \E k \in DOMAIN jar[DOId(calls[c].sid)][ent[c][i].origin] :
          jar[DOId(calls[c].sid)][ent[c][i].origin][k] = pair

----------------------------------------------------------------------------
\* The origin of the target of entry i of call c, read off the target.
OriginOf(c, i) ==
  <<calls[c].requests[i].target.scheme, calls[c].requests[i].target.host>>

\* The names with a valid entry in a list of Set-Cookie values.
ValidNames(list) ==
  {parseSetCookie(list[k])[1] :
     k \in {k \in DOMAIN list : parseSetCookie(list[k]) # NoVal}}

\* The names whose stored value differs between the maps j and k.
ChangedNames(j, k) ==
  {n \in JarNames(j) \cup JarNames(k) : Stored(j, n) # Stored(k, n)}

\* A step changes the map of origin o of session s only by saving the merge
\* of a relay of s whose target has the origin o, and then only under the
\* names with a valid entry in the merged list.
MergeFrame ==
  \A s \in Sids : \A o \in Origins :
    jar'[s][o] # jar[s][o] =>
      \E c \in Calls : \E i \in DOMAIN ent[c] :
        /\ ent[c][i].pc = "save" /\ ent'[c][i].pc # "save"
        /\ calls[c].sid = s /\ OriginOf(c, i) = o
        /\ ChangedNames(jar[s][o], jar'[s][o])
             \subseteq ValidNames(parseSetCookieHeaders(ent[c][i].up))

\* Every cookie of a Cookie header sent to an origin was merged, in the
\* relay's session, by a relay to that origin.
CookiesOfOwnOrigin ==
  \A c \in Calls : \A i \in DOMAIN ent[c] :
    (ent[c][i].sent /\ SentCookie(c, i) # NoVal) =>
      \A pair \in CookiesIn(SentCookie(c, i)) :
        \E k \in DOMAIN hist[calls[c].sid] :
          LET h == hist[calls[c].sid][k]
          IN /\ OriginOf(h.by[1], h.by[2]) = OriginOf(c, i)
             /\ \E m \in DOMAIN h.list : parseSetCookie(h.list[m]) = pair

(* C28.  Frame of a merge: a merge on (session S, origin O) changes only   *)
(* the names with a valid entry in its list, in the map of O of S; every   *)
(* other name of O, the map of every other origin of S and the jar of      *)
(* every other session stay as they were; hence a Cookie header sent to an *)
(* origin holds only cookies merged under that origin.                     *)
C28_MergeFrame == []CookiesOfOwnOrigin /\ [][MergeFrame]_vars

\* A session holds s=1 for origin b, merged by the first entry of a batch,
\* and the second entry, to origin a, was sent without any Cookie header.
C28_Witness ==
  \E c \in Calls :
    /\ Len(ent[c]) = 2 /\ calls[c].sid = "A"
    /\ OriginOf(c, 1) = <<"https", "b">> /\ OriginOf(c, 2) = <<"https", "a">>
    /\ Stored(jar["A"][<<"https", "b">>], <<"s">>) = <<"1">>
    /\ jar["A"][<<"https", "a">>] = <<>>
    /\ ent[c][2].sent /\ ent[c][2].jrOk /\ SentCookie(c, 2) = NoVal

----------------------------------------------------------------------------
(* C29.  Within one relay the jar is read and written under one origin,    *)
(* the origin of the target the caller named: every read was keyed by it,  *)
(* and every saved merge was keyed by it and follows the read of the same  *)
(* relay, also when the response came from another origin over redirects.  *)
C29_WriteOriginIsReadOrigin ==
  /\ \A c \in Calls : \A i \in DOMAIN ent[c] :
       ent[c][i].readAt # NoVal => ent[c][i].readAt = OriginOf(c, i)
  /\ \A s \in Sids : \A k \in DOMAIN hist[s] :
       LET h == hist[s][k]
       IN /\ calls[h.by[1]].sid = s
          /\ h.origin = OriginOf(h.by[1], h.by[2])
          /\ ent[h.by[1]][h.by[2]].readAt = h.origin

\* A relay to origin a was answered from origin b over redirects with
\* t=1: the cookie is stored under a, and the map of b is empty.
C29_Witness ==
  \E c \in Calls : \E i \in DOMAIN ent[c] :
    /\ ent[c][i].up # NoResp /\ ent[c][i].up.redirected
    /\ ent[c][i].up.finalOrigin = <<"https", "b">>
    /\ OriginOf(c, i) = <<"https", "a">>
    /\ MergeSaved(c, i)
    /\ Stored(jar[calls[c].sid][<<"https", "a">>], <<"t">>) = <<"1">>
    /\ jar[calls[c].sid][<<"https", "b">>] = <<>>

----------------------------------------------------------------------------
(* C30.  A batch runs in parallel mode only when pipeline is exactly       *)
(* "parallel": then every entry is started when the batch begins; with no  *)
(* pipeline, "sequential" or any other value an entry is started only      *)
(* when every entry before it is done; and the pipeline field of a 200     *)
(* response names the mode that was used.                                  *)
AsksParallel(c) == calls[c].pipeline = "parallel"

Started(c, i) == ent[c][i].pc # "wait"

C30_ModeSelection ==
  \A c \in Calls :
    (IsDispatch(c) /\ Accepted(c) /\ ~calls[c].nullBody /\ st[c] # "new") =>
      /\ AsksParallel(c) => \A i \in DOMAIN ent[c] : Started(c, i)
      /\ ~AsksParallel(c) =>
           \A i \in DOMAIN ent[c] : \A j \in DOMAIN ent[c] :
             (i < j /\ Started(c, j)) => ent[c][i].pc = "done"
      /\ out[c].status = 200 =>
           out[c].pipeline = IF AsksParallel(c) THEN "parallel" ELSE "sequential"

\* A batch of two with pipeline "Parallel": the second entry waits while
\* the first is in flight.
C30_Witness ==
  \E c \in Calls :
    /\ IsDispatch(c) /\ calls[c].pipeline = "Parallel" /\ Len(ent[c]) = 2
    /\ ent[c][1].pc = "fetch" /\ ~Started(c, 2)

----------------------------------------------------------------------------
\* Entry i of call c has no upstream response.
NoResponse(c, i) == ent[c][i].up = NoResp

(* C31.  A relay that ends without an upstream response (its validation    *)
(* failed, its method is not allowed, its bodyB64 is malformed, its fetch  *)
(* failed) writes nothing to any jar: it begins no merge, no saved merge   *)
(* is its own, and a session whose relays all lack a response has the      *)
(* empty jar it began with.                                                *)
C31_NoWriteWithoutResponse ==
  /\ \A c \in Calls : \A i \in DOMAIN ent[c] :
       NoResponse(c, i) =>
         /\ ent[c][i].jw = 0 /\ ent[c][i].pc \notin {"write", "save"}
         /\ \A s \in Sids : \A k \in DOMAIN hist[s] : hist[s][k].by # <<c, i>>
  /\ \A s \in Sids :
       (\A c \in Calls : \A i \in DOMAIN ent[c] :
          calls[c].sid = s => NoResponse(c, i)) => jar[s] = EmptyJar

\* A batch under a session whose first entry ended on its malformed
\* bodyB64 after reading the jar, and whose second entry saved the only
\* merge of the session.
C31_Witness ==
  \E c \in Calls :
    /\ Len(ent[c]) = 2 /\ calls[c].sid = "A"
    /\ ent[c][1].pc = "done" /\ ent[c][1].jr = 1 /\ NoResponse(c, 1)
    /\ ent[c][1].res.status = 400
    /\ MergeSaved(c, 2)
    /\ Len(hist["A"]) = 1 /\ hist["A"][1].by = <<c, 2>>

----------------------------------------------------------------------------
XSetCookieName == <<"x", "-", "s", "e", "t", "-", "c", "o", "o", "k", "i", "e">>

\* The jar read of entry i of call c failed; its jar write failed.
ReadFailed(c, i) == ReadDone(c, i) /\ ~ent[c][i].jrOk
WriteFailed(c, i) ==
  ent[c][i].jw = 1 /\ ~ent[c][i].jwOk /\ ent[c][i].pc \notin {"write", "save"}

(* C32, as stated: a jar failure never fails a relay.  After a failed jar  *)
(* read the request is sent without a Cookie header (unless its own        *)
(* bodyB64 is malformed).  After a failed jar write a single-shot call is  *)
(* answered with the upstream's status and an X-Set-Cookie header, and a   *)
(* batch, once answered, is answered 200 with the entry's result, which    *)
(* has the upstream's status and an X-Set-Cookie header.                   *)
C32_Original ==
  \A c \in Calls : \A i \in DOMAIN ent[c] :
    /\ ReadFailed(c, i) =>
         /\ ent[c][i].sent \/ MalformedBody(c, i)
         /\ SentCookie(c, i) = NoVal
    /\ (WriteFailed(c, i) /\ ~IsDispatch(c)) =>
         /\ st[c] = "sent" /\ out[c].status = ent[c][i].up.status
         /\ HGet(out[c].hdrs, XSetCookieName) # NoVal
    /\ (WriteFailed(c, i) /\ IsDispatch(c) /\ st[c] = "sent") =>
         /\ out[c].status = 200
         /\ out[c].results[i].status = ent[c][i].up.status
         /\ HGet(out[c].results[i].headers, XSetCookieName) # NoVal

----------------------------------------------------------------------------
\* Call c has no session: its sid is empty or no jar binding is configured.
Sessionless(c) == calls[c].sid = "" \/ ~env.SESSION_DO

\* Entry i of call c observed Set-Cookie values on its upstream response.
ObservedSetCookies(c, i) ==
  ent[c][i].up # NoResp /\ ent[c][i].up.setCookies # <<>>

\* A call without a session begins no jar read and no jar write and sends
\* no Cookie header; no saved merge is that of a call with an empty sid, and
\* while every call is without a session every jar is the empty one.
SessionlessFrame ==
  /\ \A c \in Calls : \A i \in DOMAIN ent[c] :
       Sessionless(c) =>
         /\ ent[c][i].jr = 0 /\ ent[c][i].jw = 0
         /\ ent[c][i].pc \notin {"read", "write", "save"}
         /\ SentCookie(c, i) = NoVal
  /\ \A s \in Sids : \A k \in DOMAIN hist[s] :
       calls[hist[s][k].by[1]].sid # ""
  /\ (\A c \in Calls : Sessionless(c)) => \A s \in Sids : jar[s] = EmptyJar

(* C33, as stated: a call whose sid is empty, or made while no jar binding *)
(* is configured, reads no jar, writes no jar and sends no Cookie header,  *)
(* and its answer still has the X-Set-Cookie header whenever the upstream  *)
(* response had Set-Cookie values: on the response of a single-shot call,  *)
(* and on the entry's result in the 200 answer of a batch.                 *)
C33_Original ==
  /\ SessionlessFrame
  /\ \A c \in Calls : \A i \in DOMAIN ent[c] :
       (Sessionless(c) /\ ObservedSetCookies(c, i) /\ st[c] = "sent") =>
         IF IsDispatch(c)
         THEN /\ out[c].status = 200
              /\ HGet(out[c].results[i].headers, XSetCookieName) # NoVal
         ELSE HGet(out[c].hdrs, XSetCookieName) # NoVal

----------------------------------------------------------------------------
\* A step removes no stored name of any session and origin.
NamesKept ==
  \A s \in Sids : \A o \in Origins :
    JarNames(jar[s][o]) \subseteq JarNames(jar'[s][o])

\* Every name a saved merge assigned is still stored under its session
\* and origin.
SavedNamesStored ==
  \A s \in Sids : \A k \in DOMAIN hist[s] :
    \A pair \in SetPairs(hist[s][k].list) :
      pair[1] # ProtoName => pair[1] \in JarNames(jar[s][hist[s][k].origin])

----------------------------------------------------------------------------
\* Call c was answered 200 with exactly one result per entry of its list.
OneResultPerEntry(c) ==
  /\ st[c] = "sent" /\ out[c].status = 200
  /\ out[c].count = ListSize(c) /\ Len(out[c].results) = ListSize(c)
  /\ \A i \in DOMAIN out[c].results : out[c].results[i].set

\* No entry of call c is run twice: it begins at most one jar read and one
\* jar write, and once it has a result it is no longer in flight.
RunAtMostOnce(c) ==
  \A i \in DOMAIN ent[c] :
    /\ ent[c][i].jr <= 1 /\ ent[c][i].jw <= 1
    /\ ent[c][i].res.set => ent[c][i].pc \in {"done", "threw"}

(* C35, as stated: when every upstream call and every jar operation        *)
(* settles, an accepted /dispatch call, sequential or parallel, is         *)
(* eventually answered with exactly one result per entry, and no entry is  *)
(* run more than once.                                                     *)
C35_Original ==
  /\ (Accepted(1) ~> OneResultPerEntry(1))
  /\ [](Accepted(1) => RunAtMostOnce(1))

====
